---- MODULE Spec2Model ----
(***************************************************************************)
(* Model of the CBEFF extraction logic of BioUtilsClient                   *)
(* (src/python/bio_utils_client.py): parse_cbeff_xml, parse_cbeff and      *)
(* convert_cbeff_xml_all_birs.                                             *)
(*                                                                         *)
(* Text is a sequence of code points, a byte string a sequence of          *)
(* integers 0..255.  Python's None is the string "None" for a modality,    *)
(* NoText for an element text, NoElem for an element and NoBytes for a     *)
(* byte string.                                                            *)
(***************************************************************************)
EXTENDS Integers, Sequences, FiniteSets, TLC

(***************************************************************************)
(* Bounds of the explored inputs.                                          *)
(***************************************************************************)
\* longest BDB payload embedded in a generated XML document
MaxBdbLen == 3
\* largest number of nested BIR elements in a generated multi-BIR document
MaxBirs == 3

(***************************************************************************)
(* Sequences, characters and strings.                                      *)
(***************************************************************************)
NoText == <<-1>>
NoBytes == <<-1>>
NoElem == <<0>>

Min(a, b) == IF a < b THEN a ELSE b

\* Python slice s[lo:hi] with 0 <= lo (0-based, hi exclusive, clipped)
Slice(s, lo, hi) == SubSeq(s, lo + 1, Min(hi, Len(s)))

\* pat in s (substring or sub-bytes containment)
Contains(s, pat) ==
  \E i \in 0..(Len(s) - Len(pat)) : SubSeq(s, i + 1, i + Len(pat)) = pat

\* s.startswith(pat)
StartsWith(s, pat) == Len(s) >= Len(pat) /\ SubSeq(s, 1, Len(pat)) = pat

\* s.endswith(pat)
EndsWith(s, pat) ==
  Len(s) >= Len(pat) /\ SubSeq(s, Len(s) - Len(pat) + 1, Len(s)) = pat

\* str.isspace() on the ASCII range: \t \n \v \f \r, \x1c..\x1f and space
SpaceChars == (9..13) \cup (28..32)

IsSpace(c) == c \in SpaceChars

\* \w of the re module on the ASCII range: letters, digits and underscore
IsWord(c) == c \in (48..57) \cup (65..90) \cup (97..122) \cup {95}

\* str.upper() on the ASCII range
UpperChar(c) == IF c \in 97..122 THEN c - 32 ELSE c

Upper(s) == [i \in 1..Len(s) |-> UpperChar(s[i])]

\* s with its longest prefix of characters in S removed
LStrip(s, S) ==
  IF \A i \in 1..Len(s) : s[i] \in S THEN <<>>
  ELSE SubSeq(s, CHOOSE i \in 1..Len(s) :
                   s[i] \notin S /\ \A j \in 1..(i - 1) : s[j] \in S, Len(s))

\* s with its longest suffix of characters in S removed (str.rstrip(chars))
RStrip(s, S) ==
  IF \A i \in 1..Len(s) : s[i] \in S THEN <<>>
  ELSE SubSeq(s, 1, CHOOSE i \in 1..Len(s) :
                      s[i] \notin S /\ \A j \in (i + 1)..Len(s) : s[j] \in S)

\* str.strip()
Strip(s) == RStrip(LStrip(s, SpaceChars), SpaceChars)

\* big-endian unsigned 32-bit integer of a 4-byte string (struct.unpack('>I')).
\* Values of 2^30 and more are all represented by 2^30: the value is only
\* compared with, or added to, offsets into buffers far shorter than that.
Huge == 64 * 16777216

UnpackBE32(b) ==
  IF b[1] >= 64 THEN Huge
  ELSE ((b[1] * 256 + b[2]) * 256 + b[3]) * 256 + b[4]

\* 4-byte big-endian encoding of v < 2^30 (used to build input buffers)
PackBE32(v) ==
  << (v \div 16777216) % 256, (v \div 65536) % 256, (v \div 256) % 256, v % 256 >>

\* the length field 0xFFFFFFFF
MaxField == <<255, 255, 255, 255>>

(***************************************************************************)
(* Literals of the source, as code points.                                 *)
(***************************************************************************)
\* "FINGER", "FMR", "IRIS", "IRI", "FACE", "FAC"
KwFINGER == <<70, 73, 78, 71, 69, 82>>
KwFMR == <<70, 77, 82>>
KwIRIS == <<73, 82, 73, 83>>
KwIRI == <<73, 82, 73>>
KwFACE == <<70, 65, 67, 69>>
KwFAC == <<70, 65, 67>>
\* "ISO19794-"
IsoPrefix == <<73, 83, 79, 49, 57, 55, 57, 52, 45>>
\* b'ISO19794-4', b'ISO19794-6', b'ISO19794-5'
SigIso4 == IsoPrefix \o <<52>>
SigIso6 == IsoPrefix \o <<54>>
SigIso5 == IsoPrefix \o <<53>>
\* "<?xml" and "<BIR"
XmlProlog == <<60, 63, 120, 109, 108>>
BirOpen == <<60, 66, 73, 82>>
\* "NONE"
StrNONE == <<78, 79, 78, 69>>
\* tag names "BIR", "BDBInfo", "BDB", "Type", "Subtype"
TagBIR == <<66, 73, 82>>
TagBDBInfo == <<66, 68, 66, 73, 110, 102, 111>>
TagBDB == <<66, 68, 66>>
TagType == <<84, 121, 112, 101>>
TagSubtype == <<83, 117, 98, 116, 121, 112, 101>>

(***************************************************************************)
(* Base64 (the standard alphabet of the base64 module).                    *)
(***************************************************************************)
PadChar == 61

IsB64Digit(c) == c \in (65..90) \cup (97..122) \cup (48..57) \cup {43, 47}

\* value of a base64 digit
Sextet(c) ==
  IF c \in 65..90 THEN c - 65
  ELSE IF c \in 97..122 THEN c - 97 + 26
  ELSE IF c \in 48..57 THEN c - 48 + 52
  ELSE IF c = 43 THEN 62 ELSE 63

\* digit of a value 0..63
Digit(v) ==
  IF v < 26 THEN 65 + v
  ELSE IF v < 52 THEN 97 + (v - 26)
  ELSE IF v < 62 THEN 48 + (v - 52)
  ELSE IF v = 62 THEN 43 ELSE 47

\* base64.b64encode
RECURSIVE B64Encode(_)
B64Encode(b) ==
  IF Len(b) = 0 THEN <<>>
  ELSE IF Len(b) = 1 THEN
    << Digit(b[1] \div 4), Digit((b[1] % 4) * 16), PadChar, PadChar >>
  ELSE IF Len(b) = 2 THEN
    << Digit(b[1] \div 4), Digit((b[1] % 4) * 16 + b[2] \div 16),
       Digit((b[2] % 16) * 4), PadChar >>
  ELSE
    << Digit(b[1] \div 4), Digit((b[1] % 4) * 16 + b[2] \div 16),
       Digit((b[2] % 16) * 4 + b[3] \div 64), Digit(b[3] % 64) >>
    \o B64Encode(SubSeq(b, 4, Len(b)))

\* bytes carried by a run of base64 digits whose length is not 1 modulo 4
RECURSIVE DecodeDigits(_)
DecodeDigits(d) ==
  IF Len(d) < 2 THEN <<>>
  ELSE IF Len(d) = 2 THEN
    << Sextet(d[1]) * 4 + Sextet(d[2]) \div 16 >>
  ELSE IF Len(d) = 3 THEN
    << Sextet(d[1]) * 4 + Sextet(d[2]) \div 16,
       (Sextet(d[2]) % 16) * 16 + Sextet(d[3]) \div 4 >>
  ELSE
    << Sextet(d[1]) * 4 + Sextet(d[2]) \div 16,
       (Sextet(d[2]) % 16) * 16 + Sextet(d[3]) \div 4,
       (Sextet(d[3]) % 4) * 64 + Sextet(d[4]) >>
    \o DecodeDigits(SubSeq(d, 5, Len(d)))

\* base64.b64decode(s, validate=True): the set of outcomes, a byte string or
\* DecodeError.  Where CPython releases differ (padding in front of all data,
\* padding after a complete quad, a second '=' after a 3-digit tail) both the
\* accepting and the rejecting outcome are possible.
DecodeError == <<-2>>

B64DecodeStrict(s) ==
  LET digits == RStrip(s, {PadChar})
      n == Len(digits)
      p == Len(s) - n
      ok == DecodeDigits(digits)
  IN  IF \E i \in 1..n : ~IsB64Digit(digits[i]) THEN {DecodeError}
      ELSE IF n % 4 = 1 THEN {DecodeError}
      ELSE IF n = 0 THEN
        (IF p = 0 THEN {<<>>} ELSE IF p <= 2 THEN {<<>>, DecodeError}
         ELSE {DecodeError})
      ELSE IF n % 4 = 0 THEN (IF p = 0 THEN {ok} ELSE {ok, DecodeError})
      ELSE IF n % 4 = 2 THEN (IF p = 2 THEN {ok} ELSE {DecodeError})
      ELSE (IF p = 1 THEN {ok} ELSE IF p = 2 THEN {ok, DecodeError}
            ELSE {DecodeError})

(***************************************************************************)
(* The element tree built by ET.fromstring.  An element is a record        *)
(* [ns, name, text, kids]: ns is 0 for a tag without namespace and the     *)
(* number of its namespace URI otherwise (tag "{uri}name"), text is        *)
(* NoText for None.  An element of a document is named by its path, the    *)
(* sequence of child positions from the root; NoElem is None.              *)
(***************************************************************************)
El(ns, name, text, kids) ==
  [ns |-> ns, name |-> name, text |-> text, kids |-> kids]

RECURSIVE NodeAt(_, _)
NodeAt(node, path) ==
  IF path = <<>> THEN node ELSE NodeAt(node.kids[Head(path)], Tail(path))

\* paths of the children of the element at path
ChildPaths(doc, path) ==
  [i \in 1..Len(NodeAt(doc, path).kids) |-> path \o <<i>>]

\* paths of the proper descendants of node (itself at path), document order
RECURSIVE DescFrom(_, _, _)
DescFrom(node, path, i) ==
  IF i > Len(node.kids) THEN <<>>
  ELSE <<path \o <<i>>>> \o DescFrom(node.kids[i], path \o <<i>>, 1)
       \o DescFrom(node, path, i + 1)

DescPaths(doc, path) == DescFrom(NodeAt(doc, path), path, 1)

\* the elements of paths whose tag is {ns}name (ns = 0: the bare name)
Matching(doc, paths, ns, name) ==
  LET Hit(p) == NodeAt(doc, p).ns = ns /\ NodeAt(doc, p).name = name
  IN  SelectSeq(paths, Hit)

\* Element.findall(".//tag")
FindAll(doc, path, ns, name) == Matching(doc, DescPaths(doc, path), ns, name)

\* Element.find(path): the first match or None
FindFirst(doc, paths, ns, name) ==
  LET m == Matching(doc, paths, ns, name)
  IN  IF m = <<>> THEN NoElem ELSE m[1]

\* namespace of the root tag, 0 when the tag does not start with '{'
NamespaceOf(doc) == doc.ns

\* find_with_ns(parent, tag, direct_child): the search paths in order, as the
\* namespaces they match: "{namespace}tag", "ns:tag" (the same namespace
\* through ns_map), then the bare tag
SearchPaths(namespace) ==
  IF namespace # 0 THEN <<namespace, namespace, 0>> ELSE <<0>>

RECURSIVE TryPaths(_, _, _, _)
TryPaths(doc, cands, nss, name) ==
  IF nss = <<>> THEN NoElem
  ELSE LET r == FindFirst(doc, cands, Head(nss), name)
       IN  IF r # NoElem THEN r ELSE TryPaths(doc, cands, Tail(nss), name)

find_with_ns(doc, parent, name, direct_child) ==
  LET cands == IF direct_child THEN ChildPaths(doc, parent)
               ELSE DescPaths(doc, parent)
  IN  TryPaths(doc, cands, SearchPaths(NamespaceOf(doc)), name)

\* bir_elements of parse_cbeff_xml: every BIR below the root, found with the
\* namespace first and without it when that finds nothing, and the root in
\* front when its tag ends with "BIR"
FindBirsBelow(doc) ==
  LET namespace == NamespaceOf(doc)
      withNs == IF namespace # 0 THEN FindAll(doc, <<>>, namespace, TagBIR)
                ELSE <<>>
  IN  IF withNs # <<>> THEN withNs ELSE FindAll(doc, <<>>, 0, TagBIR)

CollectBirsXml(doc) ==
  IF EndsWith(doc.name, TagBIR) THEN <<(<<>>)>> \o FindBirsBelow(doc)
  ELSE FindBirsBelow(doc)

\* bir_elements of convert_cbeff_xml_all_birs: the root is not added
CollectBirsAll(doc) == FindBirsBelow(doc)

\* "not elem.text"
TextMissing(doc, path) ==
  path = NoElem \/ NodeAt(doc, path).text = NoText \/ NodeAt(doc, path).text = <<>>

(***************************************************************************)
(* Modality and ISO version.                                               *)
(***************************************************************************)
Modalities == {"FINGER", "IRIS", "FACE"}

\* the keyword test with the FACE keywords in front of the IRIS keywords
ClassifyUpperFaceFirst(t) ==
  IF Contains(t, KwFINGER) \/ Contains(t, KwFMR) THEN "FINGER"
  ELSE IF Contains(t, KwFACE) \/ Contains(t, KwFAC) THEN "FACE"
  ELSE IF Contains(t, KwIRIS) \/ Contains(t, KwIRI) THEN "IRIS"
  ELSE "None"

\* the keyword test applied to an upper-cased text
ClassifyUpper(t) ==
  IF Contains(t, KwFINGER) \/ Contains(t, KwFMR) THEN "FINGER"
  ELSE IF Contains(t, KwIRIS) \/ Contains(t, KwIRI) THEN "IRIS"
  ELSE IF Contains(t, KwFACE) \/ Contains(t, KwFAC) THEN "FACE"
  ELSE "None"

\* mutant: the Type text is matched without upper-casing it
ClassifyTypeTextCaseSensitive(text) == ClassifyUpper(Strip(text))

\* modality of a Type text: type_elem.text.strip().upper()
ClassifyTypeText(text) == ClassifyUpper(Upper(Strip(text)))

\* mutant: the FACE branch is missing and FACE gets the default version
IsoVersionOfFaceDefault(modality) ==
  IF modality = "IRIS" THEN "ISO19794_6_2011" ELSE "ISO19794_4_2011"

\* iso_version of a detected modality
IsoVersionOf(modality) ==
  IF modality = "IRIS" THEN "ISO19794_6_2011"
  ELSE IF modality = "FACE" THEN "ISO19794_5_2011"
  ELSE IF modality = "FINGER" THEN "ISO19794_4_2011"
  ELSE "ISO19794_4_2011"

\* Type element of a BDBInfo: direct child first, then any descendant
TypeElemOf(doc, bdbinfo) ==
  LET direct == find_with_ns(doc, bdbinfo, TagType, TRUE)
  IN  IF direct # NoElem THEN direct
      ELSE find_with_ns(doc, bdbinfo, TagType, FALSE)

(***************************************************************************)
(* Results of a call.                                                      *)
(***************************************************************************)
Ok(bdb, modality, version) ==
  [status |-> "ok", bdb |-> bdb, modality |-> modality,
   iso_version |-> version, error |-> "None"]

Fail(error) ==
  [status |-> "error", bdb |-> NoBytes, modality |-> "None",
   iso_version |-> "None", error |-> error]

Pending ==
  [status |-> "pending", bdb |-> NoBytes, modality |-> "None",
   iso_version |-> "None", error |-> "None"]

\* outcome of ET.fromstring when the text is not well-formed
ParseError == El(-1, <<>>, NoText, <<>>)

(***************************************************************************)
(* parse_cbeff_xml: the outcomes for a parsed document (the decoder may    *)
(* have more than one).                                                    *)
(***************************************************************************)
\* the first collected BIR, complete or not
ChooseBirFirst(doc, birs) == birs[1]

\* the BIR to extract from: the first with both a BDBInfo and a BDB below it,
\* else the first collected
ChooseBir(doc, birs) ==
  LET Complete(b) == /\ find_with_ns(doc, b, TagBDBInfo, FALSE) # NoElem
                     /\ find_with_ns(doc, b, TagBDB, FALSE) # NoElem
      full == SelectSeq(birs, Complete)
  IN  IF full # <<>> THEN full[1] ELSE birs[1]

\* modality read from the BDBInfo/Type of the chosen BIR
XmlModality(doc, bir) ==
  LET bdbinfo == find_with_ns(doc, bir, TagBDBInfo, FALSE)
      type_elem == IF bdbinfo = NoElem THEN NoElem ELSE TypeElemOf(doc, bdbinfo)
  IN  IF bdbinfo # NoElem /\ ~TextMissing(doc, type_elem)
        THEN ClassifyTypeText(NodeAt(doc, type_elem).text)
        ELSE "None"

\* mutant: an unset modality is replaced by FINGER
XmlFinishDefaultFinger(iso_bytes, modality) ==
  IF iso_bytes = DecodeError THEN Fail("InvalidBDBEncoding")
  ELSE IF Len(iso_bytes) = 0 THEN Fail("EmptyBDB")
  ELSE IF modality = "None" THEN Ok(iso_bytes, "FINGER", "ISO19794_4_2011")
  ELSE Ok(iso_bytes, modality, IsoVersionOf(modality))

\* the modality is checked before the decoded bytes
XmlFinishModalityFirst(iso_bytes, modality) ==
  IF modality = "None" THEN Fail("ModalityUndetected")
  ELSE IF iso_bytes = DecodeError THEN Fail("InvalidBDBEncoding")
  ELSE IF Len(iso_bytes) = 0 THEN Fail("EmptyBDB")
  ELSE Ok(iso_bytes, modality, IsoVersionOf(modality))

\* the checks after the BDB text was decoded to iso_bytes
XmlFinish(iso_bytes, modality) ==
  IF iso_bytes = DecodeError THEN Fail("InvalidBDBEncoding")
  ELSE IF Len(iso_bytes) = 0 THEN Fail("EmptyBDB")
  ELSE IF modality = "None" THEN Fail("ModalityUndetected")
  ELSE Ok(iso_bytes, modality, IsoVersionOf(modality))

ParseCbeffXml(doc) ==
  IF doc = ParseError THEN {Fail("MalformedXML")}
  ELSE LET birs == CollectBirsXml(doc)
       IN  IF birs = <<>> THEN {Fail("NoBIRFound")}
           ELSE LET bir == ChooseBir(doc, birs)
                    modality == XmlModality(doc, bir)
                    bdb == find_with_ns(doc, bir, TagBDB, FALSE)
                IN  IF TextMissing(doc, bdb) THEN {Fail("MissingOrEmptyBDB")}
                    ELSE { XmlFinish(iso, modality) :
                             iso \in B64DecodeStrict(Strip(NodeAt(doc, bdb).text)) }

(***************************************************************************)
(* parse_cbeff: format detection and the binary/base64 extractor.          *)
(***************************************************************************)
\* mutant: the prefix test is made on the text as given, not stripped
IsXmlInputNoStrip(text) ==
  StartsWith(text, XmlProlog) \/ StartsWith(text, BirOpen)

\* the input is classified as XML
IsXmlInput(text) ==
  LET cbeff_stripped == Strip(text)
  IN  StartsWith(cbeff_stripped, XmlProlog) \/ StartsWith(cbeff_stripped, BirOpen)

\* without the re.sub: only white space is removed
CleanBase64SpacesOnly(text) ==
  LET NotSpace(c) == ~IsSpace(c)
  IN  SelectSeq(text, NotSpace)

\* ''.join(text.split()) followed by re.sub(r'[^A-Za-z0-9+/=]', '', ...)
CleanBase64(text) ==
  LET NotSpace(c) == ~IsSpace(c)
      Keep(c) == IsB64Digit(c) \/ c = PadChar
  IN  SelectSeq(SelectSeq(text, NotSpace), Keep)

\* the string handed to the decoder: trailing '=' replaced by the padding the
\* digit count calls for, or left as it is when that count is a multiple of 4
RepairPadding(clean) ==
  LET base64_without_padding == RStrip(clean, {PadChar})
      missing_padding == Len(base64_without_padding) % 4
  IN  IF missing_padding # 0
        THEN base64_without_padding \o [i \in 1..(4 - missing_padding) |-> PadChar]
        ELSE clean

MinContainerLen == 8

\* the length check on the decoded container; the mutant lets 7 bytes pass
TooShortOffByOne(b) == Len(b) < MinContainerLen - 1

TooShort(b) == Len(b) < MinContainerLen
SbhLenOffset == 8
SbhOffset == 12
WindowLen == 100

\* sbh.decode('utf-8', errors='ignore') for byte strings whose bytes above
\* 127 are not part of a valid UTF-8 sequence: those bytes are dropped
Utf8Ignore(b) ==
  LET Ascii(c) == c < 128
  IN  SelectSeq(b, Ascii)

ClassifySbh(sbh) == ClassifyUpper(Upper(Utf8Ignore(sbh)))

\* the structured scan without the test that the BDB ends inside the buffer
StructuredScanUnguarded(b) ==
  LET n == Len(b)
      none == [modality |-> "None", iso_bytes |-> NoBytes]
  IN  IF n < SbhOffset THEN none
      ELSE LET sbh_length == UnpackBE32(Slice(b, SbhLenOffset, SbhOffset))
               sbh_end == SbhOffset + sbh_length
           IN  IF ~(0 < sbh_length /\ sbh_length < n - SbhOffset) THEN none
               ELSE IF ~(sbh_end < n) THEN none
               ELSE LET modality == ClassifySbh(Slice(b, SbhOffset, sbh_end))
                    IN  IF ~(sbh_end + 4 <= n)
                          THEN [modality |-> modality, iso_bytes |-> NoBytes]
                        ELSE LET bdb_length == UnpackBE32(Slice(b, sbh_end, sbh_end + 4))
                                 bdb_start == sbh_end + 4
                                 bdb_end == bdb_start + bdb_length
                             IN  [modality |-> modality,
                                  iso_bytes |-> Slice(b, bdb_start, bdb_end)]

\* the structured scan refusing a BDB that ends where the buffer ends
StructuredScanShortOfEnd(b) ==
  LET n == Len(b)
      none == [modality |-> "None", iso_bytes |-> NoBytes]
  IN  IF n < SbhOffset THEN none
      ELSE LET sbh_length == UnpackBE32(Slice(b, SbhLenOffset, SbhOffset))
               sbh_end == SbhOffset + sbh_length
           IN  IF ~(0 < sbh_length /\ sbh_length < n - SbhOffset) THEN none
               ELSE IF ~(sbh_end < n) THEN none
               ELSE LET modality == ClassifySbh(Slice(b, SbhOffset, sbh_end))
                    IN  IF ~(sbh_end + 4 <= n)
                          THEN [modality |-> modality, iso_bytes |-> NoBytes]
                        ELSE LET bdb_length == UnpackBE32(Slice(b, sbh_end, sbh_end + 4))
                                 bdb_start == sbh_end + 4
                                 bdb_end == bdb_start + bdb_length
                             IN  IF bdb_end < n
                                   THEN [modality |-> modality,
                                         iso_bytes |-> Slice(b, bdb_start, bdb_end)]
                                   ELSE [modality |-> modality, iso_bytes |-> NoBytes]

\* step 1, the structured scan: [8-byte header][SBH length][SBH][BDB length][BDB]
StructuredScan(b) ==
  LET n == Len(b)
      none == [modality |-> "None", iso_bytes |-> NoBytes]
  IN  IF n < SbhOffset THEN none
      ELSE LET sbh_length == UnpackBE32(Slice(b, SbhLenOffset, SbhOffset))
               sbh_end == SbhOffset + sbh_length
           IN  IF ~(0 < sbh_length /\ sbh_length < n - SbhOffset) THEN none
               ELSE IF ~(sbh_end < n) THEN none
               ELSE LET modality == ClassifySbh(Slice(b, SbhOffset, sbh_end))
                    IN  IF ~(sbh_end + 4 <= n)
                          THEN [modality |-> modality, iso_bytes |-> NoBytes]
                        ELSE LET bdb_length == UnpackBE32(Slice(b, sbh_end, sbh_end + 4))
                                 bdb_start == sbh_end + 4
                                 bdb_end == bdb_start + bdb_length
                             IN  IF bdb_end <= n
                                   THEN [modality |-> modality,
                                         iso_bytes |-> Slice(b, bdb_start, bdb_end)]
                                   ELSE [modality |-> modality, iso_bytes |-> NoBytes]

\* modality whose signature the 100-byte chunk holds, finger before iris
\* before face
ChunkModality(chunk) ==
  IF Contains(chunk, SigIso4) \/ Contains(chunk, KwFMR) THEN "FINGER"
  ELSE IF Contains(chunk, SigIso6) \/ Contains(chunk, KwIRI) THEN "IRIS"
  ELSE IF Contains(chunk, SigIso5) \/ Contains(chunk, KwFAC) THEN "FACE"
  ELSE "None"

\* step 2, the signature scan from offset i on; modality is kept when
\* nothing matches
RECURSIVE SignatureScanFrom(_, _, _)
SignatureScanFrom(b, i, modality) ==
  LET n == Len(b)
  IN  IF i >= n - WindowLen THEN [modality |-> modality, iso_bytes |-> NoBytes]
      ELSE LET m == ChunkModality(Slice(b, i, i + WindowLen))
               record_length == UnpackBE32(Slice(b, i, i + 4))
           IN  IF m # "None" /\ i + 4 < n
                  /\ 0 < record_length /\ record_length < n - i
                 THEN [modality |-> m, iso_bytes |-> Slice(b, i, i + record_length)]
                 ELSE SignatureScanFrom(b, i + 1, modality)

\* mutant: the scan starts at offset 1
SignatureScanSkipFirst(b, modality) == SignatureScanFrom(b, 1, modality)

SignatureScan(b, modality) == SignatureScanFrom(b, 0, modality)

\* mutant: the last resort takes the whole buffer as a finger record
WholeBufferModalityDefault(b) ==
  LET head == Slice(b, 0, WindowLen)
  IN  IF Contains(head, KwFMR) THEN "FINGER"
      ELSE IF Contains(head, KwIRI) THEN "IRIS"
      ELSE IF Contains(head, KwFAC) THEN "FACE"
      ELSE "FINGER"

\* mutant: the signatures are looked for in the whole buffer
WholeBufferModalityAnywhere(b) ==
  IF Contains(b, KwFMR) THEN "FINGER"
  ELSE IF Contains(b, KwIRI) THEN "IRIS"
  ELSE IF Contains(b, KwFAC) THEN "FACE"
  ELSE "None"

\* step 3, the whole buffer when a 3-byte signature is in its first 100 bytes
WholeBufferModality(b) ==
  LET head == Slice(b, 0, WindowLen)
  IN  IF Contains(head, KwFMR) THEN "FINGER"
      ELSE IF Contains(head, KwIRI) THEN "IRIS"
      ELSE IF Contains(head, KwFAC) THEN "FACE"
      ELSE "None"

\* mutant: only a missing iso_bytes is rejected, an empty one is returned
BinaryFinishNoEmptyCheck(iso_bytes, modality) ==
  IF iso_bytes = NoBytes THEN Fail("NoIsoBytes")
  ELSE IF modality = "None" THEN Fail("ModalityUndetected")
  ELSE Ok(iso_bytes, modality, IsoVersionOf(modality))

\* the next rung is entered whether or not a BDB was found
LadderNextUnguarded(found, next) == next

\* "if iso_bytes is None:" in front of steps 2 and 3: the next rung of the
\* ladder is entered only while no BDB was found
LadderNext(found, next) == IF found = NoBytes THEN next ELSE "final"

\* the final checks of parse_cbeff
BinaryFinish(iso_bytes, modality) ==
  IF iso_bytes = NoBytes \/ Len(iso_bytes) = 0 THEN Fail("NoIsoBytes")
  ELSE IF modality = "None" THEN Fail("ModalityUndetected")
  ELSE Ok(iso_bytes, modality, IsoVersionOf(modality))

(***************************************************************************)
(* convert_cbeff_xml_all_birs: what the loop body derives from one BIR.    *)
(***************************************************************************)
\* "FINGER", "IRIS" or "FACE" as text
ModalityText(m) ==
  IF m = "FINGER" THEN KwFINGER ELSE IF m = "IRIS" THEN KwIRIS ELSE KwFACE

\* str(n) for n >= 0
RECURSIVE DecimalText(_)
DecimalText(n) ==
  IF n < 10 THEN <<48 + n>> ELSE DecimalText(n \div 10) \o <<48 + (n % 10)>>

\* mutant: the ordinal is the 0-based index
IndexedNameZeroBased(m, bir_idx) ==
  ModalityText(m) \o <<95>> \o DecimalText(bir_idx)

\* f"{modality}_{bir_idx + 1}"
IndexedName(m, bir_idx) == ModalityText(m) \o <<95>> \o DecimalText(bir_idx + 1)

\* the characters of the class [-\s]
HyphenSpace == SpaceChars \cup {45}

\* re.sub(r'[-\s]+', '_', s)
RECURSIVE CollapseRuns(_)
CollapseRuns(s) ==
  IF s = <<>> THEN <<>>
  ELSE IF Head(s) \in HyphenSpace THEN <<95>> \o CollapseRuns(LStrip(s, HyphenSpace))
  ELSE <<Head(s)>> \o CollapseRuns(Tail(s))

\* re.sub(r'[^\w\s-]', '', s)
RemoveUnsafe(s) ==
  LET Keep(c) == IsWord(c) \/ IsSpace(c) \/ c = 45
  IN  SelectSeq(s, Keep)

\* safe_subtype of a subtype that is present
SanitizeSubtype(subtype) ==
  LET stripped == CollapseRuns(RemoveUnsafe(subtype))
  IN  RStrip(LStrip(stripped, {95}), {95})

\* subtype of a BDBInfo: the stripped text of its Subtype element, NoText
\* (None) when there is none, when it is blank and when it is "none"
SubtypeOf(doc, bdbinfo) ==
  LET direct == find_with_ns(doc, bdbinfo, TagSubtype, TRUE)
      subtype_elem == IF direct # NoElem THEN direct
                      ELSE find_with_ns(doc, bdbinfo, TagSubtype, FALSE)
  IN  IF TextMissing(doc, subtype_elem) THEN NoText
      ELSE LET subtype == Strip(NodeAt(doc, subtype_elem).text)
           IN  IF Upper(subtype) = StrNONE \/ subtype = <<>> THEN NoText
               ELSE subtype

\* safe_subtype: the name of the output file without its extension
SafeSubtype(subtype, m, bir_idx) ==
  IF subtype # NoText /\ SanitizeSubtype(subtype) # <<>>
    THEN SanitizeSubtype(subtype)
    ELSE IndexedName(m, bir_idx)

\* ".jpg", the default file_extension after the dot
DotExtension == <<46, 106, 112, 103>>

\* str(output_path / f"{safe_subtype}.{file_extension}") inside output_dir
OutputFile(safe_subtype) == safe_subtype \o DotExtension

\* modality of one BIR of the loop, "None" when the BIR is skipped for its
\* BDBInfo or Type
LoopModality(doc, bir) ==
  LET bdbinfo == find_with_ns(doc, bir, TagBDBInfo, FALSE)
      type_elem == IF bdbinfo = NoElem THEN NoElem ELSE TypeElemOf(doc, bdbinfo)
  IN  IF bdbinfo = NoElem \/ TextMissing(doc, type_elem) THEN "None"
      ELSE ClassifyTypeText(NodeAt(doc, type_elem).text)

\* the decoded BDB of one BIR of the loop: the set of outcomes, NoBytes when
\* the BIR is skipped for its BDB
LoopIsoBytes(doc, bir) ==
  LET bdb == find_with_ns(doc, bir, TagBDB, FALSE)
  IN  IF TextMissing(doc, bdb) THEN {NoBytes}
      ELSE { IF iso = DecodeError \/ Len(iso) = 0 THEN NoBytes ELSE iso :
               iso \in B64DecodeStrict(Strip(NodeAt(doc, bdb).text)) }

\* results[key] = path on a dict kept as a set of [key, path] records
DictPut(d, key, path) ==
  { e \in d : e.key # key } \cup { [key |-> key, path |-> path] }

\* writing a file replaces what the path held
FilePut(fs, path, owner) ==
  { f \in fs : f.path # path } \cup { [path |-> path, owner |-> owner] }

(***************************************************************************)
(* convert_iso_to_image and convert_cbeff_to_image.                        *)
(***************************************************************************)
\* the modalities convert_iso_to_image accepts, compared after upper()
SupportedModalities == {KwFINGER, KwIRIS, KwFACE}

UnsupportedModality(modality) == Upper(modality) \notin SupportedModalities

\* a range check that lets 0 through
CompressionOutOfRangeFromZero(compression_ratio) ==
  ~(0 <= compression_ratio /\ compression_ratio <= 100)

\* not (1 <= compression_ratio <= 100)
CompressionOutOfRange(compression_ratio) ==
  ~(1 <= compression_ratio /\ compression_ratio <= 100)

\* the default of the compression_ratio parameters
DefaultCompression == 95

\* the JSON body of the POST
JsonPayload(modality, iso_version, iso_bytes, compression_ratio) ==
  [modality |-> Upper(modality), isoVersion |-> iso_version,
   isoBase64 |-> B64Encode(iso_bytes), compressionRatio |-> compression_ratio]

\* the arguments of one convert_iso_to_image call
Request(modality, iso_version, iso_bytes, compression_ratio, output_path) ==
  [modality |-> modality, iso_version |-> iso_version, iso_bytes |-> iso_bytes,
   compression_ratio |-> compression_ratio, output_path |-> output_path]

NoRequest == Request(NoText, "None", NoBytes, 0, NoText)

\* Python truth of an optional str: None and "" are false
Truthy(text) == text # NoText /\ text # <<>>

\* final_modality = modality.upper() if modality else detected_modality
FinalModality(modality_override, detected_modality) ==
  IF Truthy(modality_override) THEN Upper(modality_override)
  ELSE ModalityText(detected_modality)

\* final_version = iso_version if iso_version else detected_version
FinalVersion(version_override, detected_version) ==
  IF version_override \notin {"None", ""} THEN version_override
  ELSE detected_version

\* response.content of a successful response that carries an image
ImageBytes == <<255, 216, 255>>

\* a returned image
Rendered(image_bytes) == Ok(image_bytes, "None", "None")

\* what the POST can come to: a response with an image, a successful
\* response without content, an HTTP error status, no response at all
RenderOutcomes == {"image", "empty", "http_error", "transport_error"}

\* convert_iso_to_image as the loop of convert_cbeff_xml_all_birs sees it:
\* the image comes back or an exception is raised, and the loop's
\* "except Exception" does not tell one exception from another
LoopOutcomes == {"image", "raised"}

\* the exception class of a failure: the two except clauses of
\* convert_iso_to_image raise requests.RequestException, everything else
\* is a ValueError (FileNotFoundError for a missing file)
ErrorClass(error) ==
  IF error = "RequestFailed" THEN "RequestException"
  ELSE IF error = "FileNotFound" THEN "FileNotFoundError"
  ELSE "ValueError"

(***************************************************************************)
(* Inputs.                                                                 *)
(***************************************************************************)
\* byte values of generated payloads: NUL, 'A' and 0xFF
ByteVals == {0, 65, 255}

\* the non-empty payloads of at most MaxBdbLen bytes
Payloads == UNION { [1..k -> ByteVals] : k \in 1..MaxBdbLen }

\* "Finger Minutiae Record", "Iris Image", "Face", "Voice", "fmr"
TxtFingerMinutiae ==
  <<70, 105, 110, 103, 101, 114, 32, 77, 105, 110, 117, 116, 105, 97, 101, 32,
    82, 101, 99, 111, 114, 100>>
TxtIrisImage == <<73, 114, 105, 115, 32, 73, 109, 97, 103, 101>>
TxtFace == <<70, 97, 99, 101>>
TxtVoice == <<86, 111, 105, 99, 101>>
TxtFmrLower == <<10, 32, 102, 109, 114, 32>>

\* <BDBInfo><Type>t</Type></BDBInfo>, without the Type when t is NoText
BdbInfoEl(ns, t) ==
  El(ns, TagBDBInfo, NoText,
     IF t = NoText THEN <<>> ELSE <<El(ns, TagType, t, <<>>)>>)

\* <BDB>t</BDB>
BdbEl(ns, t) == El(ns, TagBDB, t, <<>>)

\* <BIR><BDBInfo><Type>typeText</Type></BDBInfo><BDB>bdbText</BDB></BIR>
SingleBir(ns, typeText, bdbText) ==
  El(ns, TagBIR, NoText, <<BdbInfoEl(ns, typeText), BdbEl(ns, bdbText)>>)

\* the documents of the round trip: a finger record around each payload
RoundTripDocs ==
  { SingleBir(ns, TxtFingerMinutiae, B64Encode(b)) : ns \in {0, 1}, b \in Payloads }

\* BDB texts: "QQ==", " QQ==\n", "", "Q", "QQ=", "QUI", "====", "QUJD=", "Q Q=="
BdbTexts ==
  { <<81, 81, 61, 61>>, <<32, 81, 81, 61, 61, 10>>, <<>>, <<81>>, <<81, 81, 61>>,
    <<81, 85, 73>>, <<61, 61, 61, 61>>, <<81, 85, 74, 68, 61>>,
    <<81, 32, 81, 61, 61>>, <<32>> }

\* "Facial Image", "Face of Iris", "iri fmr"
TxtFacialImage == <<70, 97, 99, 105, 97, 108, 32, 73, 109, 97, 103, 101>>
TxtFaceOfIris == <<70, 97, 99, 101, 32, 111, 102, 32, 73, 114, 105, 115>>
TxtIriFmr == <<105, 114, 105, 32, 102, 109, 114>>

TypeTexts ==
  { TxtFingerMinutiae, TxtIrisImage, TxtFace, TxtVoice, TxtFmrLower, <<>>, NoText,
    TxtFacialImage, TxtFaceOfIris, TxtIriFmr }

VariantDocs == { SingleBir(0, t, x) : t \in TypeTexts, x \in BdbTexts }

\* documents without a BDBInfo, without a BDB, without any BIR, and a
\* namespaced root around elements without namespace
TagCBEFF == <<67, 66, 69, 70, 70>>

OddDocs ==
  { El(0, TagBIR, NoText, <<BdbEl(0, <<81, 81, 61, 61>>)>>),
    El(0, TagBIR, NoText, <<BdbInfoEl(0, TxtFace)>>),
    El(0, TagBIR, NoText, <<>>),
    El(0, TagCBEFF, NoText, <<>>),
    El(0, TagCBEFF, NoText, <<SingleBir(0, TxtIrisImage, <<81, 81, 61, 61>>)>>),
    El(1, TagCBEFF, NoText, <<SingleBir(0, TxtFace, <<81, 81, 61, 61>>)>>),
    El(1, TagBIR, NoText, <<BdbInfoEl(0, TxtFace), BdbEl(1, <<81, 81, 61, 61>>)>>),
    El(0, TagBIR, NoText,
       <<El(0, TagBIR, NoText, <<BdbInfoEl(0, TxtFace)>>),
         SingleBir(0, TxtIrisImage, <<81, 81, 61, 61>>)>>),
    El(0, TagCBEFF, NoText,
       <<El(0, TagBIR, NoText, <<BdbInfoEl(0, TxtFace)>>),
         SingleBir(0, TxtIrisImage, <<81, 81, 61, 61>>)>>),
    El(0, TagBIR, NoText, <<BdbEl(0, <<81>>)>>),
    El(0, TagCBEFF, NoText,
       <<El(0, TagBIR, NoText, <<BdbEl(0, <<32>>)>>),
         El(0, TagBIR, NoText, <<BdbInfoEl(0, TxtFace)>>)>>) }

XmlDocs == RoundTripDocs \cup VariantDocs \cup OddDocs \cup {ParseError}

\* the beginning of an XML text: "<?xml" or "<BIR", bare or after white space
XmlHeads(doc) ==
  {XmlProlog}
  \cup (IF doc = ParseError \/ StartsWith(doc.name, TagBIR)
          THEN {BirOpen, <<32, 10>> \o BirOpen} ELSE {})
  \cup (IF doc = ParseError THEN {<<32>> \o XmlProlog} ELSE {})

\* n zero bytes
Fill(n) == [i \in 1..n |-> 0]

\* [8-byte header][sbhLen][sbh][bdbLen][payload][trailer]
Structured(sbhLen, sbh, bdbLen, payload, trailer) ==
  Fill(8) \o sbhLen \o sbh \o bdbLen \o payload \o trailer

\* SBH contents: "FMR", "iris", "Fa\xFFce", "xx", "facIRI"
SbhTexts ==
  { KwFMR, <<105, 114, 105, 115>>, <<70, 97, 255, 99, 101>>, <<120, 120>>,
    <<102, 97, 99, 73, 82, 73>> }

StructuredBuffers ==
  { Structured(sl, sbh, bl, pl, tr) :
      sbh \in SbhTexts, sl \in {PackBE32(k) : k \in {0, 2, 3, 4, 5, 6}} \cup {MaxField},
      bl \in {PackBE32(k) : k \in 0..3} \cup {MaxField}, pl \in {<<65>>, <<7, 9>>}, tr \in {<<>>, <<9>>} }

ShortBuffers ==
  { Fill(k) : k \in 0..13 }
  \cup { Fill(k) \o sig : k \in 0..9, sig \in {KwFMR, KwIRI, KwFAC} }
  \cup { Fill(k) \o SigIso5 : k \in {0, 4} }
  \cup { PackBE32(5) \o KwFMR \o Fill(3) }

\* buffers longer than the scan window: a record length in front of a
\* signature, a signature beyond the first window, no signature at all, a
\* record that ends with the buffer, two signatures in one window, and a
\* record in the last 100 bytes
LongBuffers ==
  { PackBE32(20) \o KwFMR \o Fill(WindowLen),
    PackBE32(0) \o SigIso6 \o Fill(WindowLen),
    Fill(2) \o PackBE32(5) \o Fill(WindowLen - 4) \o KwFAC \o Fill(3),
    Fill(WindowLen + 4) \o KwIRI,
    Fill(WindowLen + 4),
    Fill(1) \o PackBE32(WindowLen + 6) \o KwFMR \o Fill(WindowLen - 1),
    PackBE32(20) \o KwIRI \o KwFMR \o Fill(WindowLen),
    Fill(WindowLen + 2) \o PackBE32(5) \o KwIRI \o Fill(3) }

\* texts that carry a buffer: its encoding, the same inside white space, with
\* the padding removed, with one '=' more, and with a '!' in front
TextsOf(b) ==
  LET t == B64Encode(b)
  IN  { t, <<32>> \o t \o <<13, 10>>, RStrip(t, {PadChar}), t \o <<PadChar>>,
        <<33>> \o t }

\* texts that are not an encoding: "", "  ", "!!!", "=", "==", "A", "QU=JD",
\* "<bir", "<?xm", "<BI"
RawTexts ==
  { <<>>, <<32, 32>>, <<33, 33, 33>>, <<61>>, <<61, 61>>, <<65>>,
    <<81, 85, 61, 74, 68>>, <<60, 98, 105, 114>>, <<60, 63, 120, 109>>,
    <<60, 66, 73>> }

BinaryTexts ==
  UNION { TextsOf(b) : b \in ShortBuffers }
  \cup { B64Encode(b) : b \in StructuredBuffers \cup LongBuffers }
  \cup RawTexts

\* a call: the operation, the text (for an XML document its beginning) and
\* what ET.fromstring makes of the text
Call(op, text, tree) == [op |-> op, text |-> text, tree |-> tree]

ParseCalls ==
  { Call("parse_cbeff_xml", XmlProlog, d) : d \in XmlDocs }
  \cup UNION { { Call("parse_cbeff", h, d) : h \in XmlHeads(d) } : d \in XmlDocs }
  \cup { Call("parse_cbeff", t, ParseError) : t \in BinaryTexts }

\* subtype texts "Left", "None", "Right Thumb (Minor)", "(-)", "a_b"
TxtLeft == <<76, 101, 102, 116>>
TxtNone == <<78, 111, 110, 101>>
TxtRightThumbMinor ==
  <<82, 105, 103, 104, 116, 32, 84, 104, 117, 109, 98, 32, 40, 77, 105, 110,
    111, 114, 41>>
TxtParens == <<40, 45, 41>>
TxtUnderscore == <<97, 95, 98>>
\* "QQ==", the encoding of the byte 'A'
TxtQQ == <<81, 81, 61, 61>>

\* <BIR><BDBInfo><Type/><Subtype/></BDBInfo><BDB/></BIR>, NoText leaving the
\* element out
BirOf(typeText, subtype, bdbText) ==
  El(0, TagBIR, NoText,
     <<El(0, TagBDBInfo, NoText,
          (IF typeText = NoText THEN <<>> ELSE <<El(0, TagType, typeText, <<>>)>>)
          \o (IF subtype = NoText THEN <<>> ELSE <<El(0, TagSubtype, subtype, <<>>)>>))>>
     \o (IF bdbText = NoText THEN <<>> ELSE <<BdbEl(0, bdbText)>>))

\* the BIRs a multi-BIR document is made of: four usable ones and one that
\* the loop skips for its missing BDBInfo
BirVariants ==
  { BirOf(TxtFingerMinutiae, TxtLeft, TxtQQ),
    BirOf(TxtFingerMinutiae, NoText, TxtQQ),
    BirOf(TxtIrisImage, TxtNone, TxtQQ),
    BirOf(TxtFace, TxtRightThumbMinor, TxtQQ),
    El(0, TagBIR, NoText, <<BdbEl(0, TxtQQ)>>) }

\* a root BIR around 1..MaxBirs BIRs
MultiBirDocs ==
  UNION { { El(0, TagBIR, NoText, kids) : kids \in [1..k -> BirVariants] } :
          k \in 1..MaxBirs }

\* documents with the other reasons to skip a BIR (unknown Type, no Type,
\* BDB that is not base64, empty BDB, no BDB), with one subtype under two
\* modalities, with subtypes that hold an underscore or nothing that is kept,
\* and with Type texts that hold several keywords
SkipDocs ==
  { El(0, TagBIR, NoText, <<BirOf(TxtVoice, TxtLeft, TxtQQ),
                            BirOf(TxtFingerMinutiae, TxtLeft, TxtQQ)>>),
    El(0, TagBIR, NoText, <<BirOf(TxtFingerMinutiae, TxtLeft, TxtQQ),
                            BirOf(TxtFingerMinutiae, TxtLeft, <<81>>),
                            BirOf(NoText, TxtLeft, TxtQQ),
                            BirOf(TxtFingerMinutiae, NoText, TxtQQ)>>),
    El(0, TagBIR, NoText, <<BirOf(TxtIrisImage, TxtLeft, <<>>),
                            BirOf(TxtIrisImage, TxtLeft, NoText),
                            BirOf(TxtIrisImage, TxtLeft, <<61, 61>>)>>),
    El(0, TagBIR, NoText, <<BirOf(TxtFingerMinutiae, TxtLeft, TxtQQ),
                            BirOf(TxtIrisImage, TxtLeft, TxtQQ)>>),
    El(0, TagBIR, NoText, <<BirOf(TxtFingerMinutiae, TxtLeft, TxtQQ),
                            BirOf(TxtFingerMinutiae, TxtUnderscore, TxtQQ),
                            BirOf(TxtFace, TxtParens, TxtQQ)>>),
    El(0, TagBIR, NoText, <<BirOf(TxtFace, TxtParens, TxtQQ),
                            BirOf(TxtFingerMinutiae, TxtUnderscore, TxtQQ),
                            BirOf(TxtFace, TxtParens, TxtQQ),
                            BirOf(TxtFingerMinutiae, TxtUnderscore, TxtQQ)>>),
    El(0, TagBIR, NoText, <<BirOf(TxtFaceOfIris, NoText, TxtQQ),
                            BirOf(TxtFacialImage, NoText, TxtQQ),
                            BirOf(TxtIriFmr, NoText, TxtQQ)>>) }

\* documents whose only BIR is the root
RootOnlyDocs ==
  { SingleBir(ns, TxtFingerMinutiae, TxtQQ) : ns \in {0, 1} }

AllBirsCalls ==
  { Call("convert_cbeff_xml_all_birs", XmlProlog, d) :
      d \in MultiBirDocs \cup SkipDocs \cup OddDocs \cup RootOnlyDocs \cup {ParseError} }

(***************************************************************************)
(* State.                                                                  *)
(***************************************************************************)
VARIABLES
  call,           \* the operation and its argument
  pc,             \* position in the operation
  route,          \* "xml" or "binary" once parse_cbeff has classified the input
  decoder_input,  \* the string handed to b64decode, NoText before that
  cbeff_bytes,    \* the decoded container
  modality,       \* local modality of parse_cbeff
  iso_bytes,      \* local iso_bytes of parse_cbeff
  tried,          \* the extractors and heuristics entered so far
  result,         \* the outcome of the call
  bir_elements,   \* convert_cbeff_xml_all_birs: the collected BIRs
  bir_idx,        \* index of the next BIR of the loop, from 0
  results,        \* the dict that is returned
  processed_count,
  files,          \* the files of output_dir, each with the BIR that wrote it
  log,            \* one record for every BIR the loop has been through
  request,        \* the arguments of the pending convert_iso_to_image call
  posts           \* the JSON bodies POSTed to the renderer, in order

parseVars ==
  <<call, pc, route, decoder_input, cbeff_bytes, modality, iso_bytes, tried, result>>

loopVars == <<bir_elements, bir_idx, results, processed_count, files, log>>

vars == <<parseVars, loopVars, request, posts>>

InitLoopVars ==
  /\ bir_elements = <<>>
  /\ bir_idx = 0
  /\ results = {}
  /\ processed_count = 0
  /\ files = {}
  /\ log = <<>>
  /\ request = NoRequest
  /\ posts = <<>>

InitParse ==
  /\ call \in ParseCalls
  /\ pc = IF call.op = "parse_cbeff" THEN "start" ELSE "xml"
  /\ route = "None"
  /\ decoder_input = NoText
  /\ cbeff_bytes = NoBytes
  /\ modality = "None"
  /\ iso_bytes = NoBytes
  /\ tried = {}
  /\ result = Pending
  /\ InitLoopVars

\* parse_cbeff, the format detector
Route ==
  /\ pc = "start"
  /\ route' = IF IsXmlInput(call.text) THEN "xml" ELSE "binary"
  /\ pc' = IF IsXmlInput(call.text) THEN "xml" ELSE "decode"
  /\ UNCHANGED <<call, decoder_input, cbeff_bytes, modality, iso_bytes, tried, result>>
  /\ UNCHANGED <<loopVars, request, posts>>

\* parse_cbeff_xml, called directly or from parse_cbeff
XmlExtract ==
  /\ pc = "xml"
  /\ tried' = tried \cup {"xml"}
  /\ result' \in ParseCbeffXml(call.tree)
  /\ pc' = "done"
  /\ UNCHANGED <<call, route, decoder_input, cbeff_bytes, modality, iso_bytes>>
  /\ UNCHANGED <<loopVars, request, posts>>

\* parse_cbeff: cleaning, padding repair, decoding and the length check
Decode ==
  /\ pc = "decode"
  /\ LET clean == CleanBase64(call.text)
     IN  IF clean = <<>>
           THEN /\ result' = Fail("EmptyInput")
                /\ pc' = "done"
                /\ UNCHANGED <<decoder_input, cbeff_bytes>>
           ELSE /\ decoder_input' = RepairPadding(clean)
                /\ \E out \in B64DecodeStrict(RepairPadding(clean)) :
                     IF out = DecodeError
                       THEN /\ result' = Fail("InvalidContainerBase64")
                            /\ pc' = "done"
                            /\ UNCHANGED cbeff_bytes
                     ELSE IF TooShort(out)
                       THEN /\ cbeff_bytes' = out
                            /\ result' = Fail("ContainerTooShort")
                            /\ pc' = "done"
                     ELSE /\ cbeff_bytes' = out
                          /\ pc' = "structured"
                          /\ UNCHANGED result
  /\ UNCHANGED <<call, route, modality, iso_bytes, tried>>
  /\ UNCHANGED <<loopVars, request, posts>>

\* parse_cbeff, step 1
StructuredStep ==
  /\ pc = "structured"
  /\ tried' = tried \cup {"structured"}
  /\ modality' = StructuredScan(cbeff_bytes).modality
  /\ iso_bytes' = StructuredScan(cbeff_bytes).iso_bytes
  /\ pc' = LadderNext(StructuredScan(cbeff_bytes).iso_bytes, "signature")
  /\ UNCHANGED <<call, route, decoder_input, cbeff_bytes, result>>
  /\ UNCHANGED <<loopVars, request, posts>>

\* parse_cbeff, step 2 (entered when iso_bytes is None)
SignatureStep ==
  /\ pc = "signature"
  /\ tried' = tried \cup {"signature"}
  /\ modality' = SignatureScan(cbeff_bytes, modality).modality
  /\ iso_bytes' = SignatureScan(cbeff_bytes, modality).iso_bytes
  /\ pc' = LadderNext(SignatureScan(cbeff_bytes, modality).iso_bytes, "fallback")
  /\ UNCHANGED <<call, route, decoder_input, cbeff_bytes, result>>
  /\ UNCHANGED <<loopVars, request, posts>>

\* parse_cbeff, step 3 (entered when iso_bytes is still None)
FallbackStep ==
  /\ pc = "fallback"
  /\ tried' = tried \cup {"fallback"}
  /\ iso_bytes' = cbeff_bytes
  /\ IF WholeBufferModality(cbeff_bytes) # "None"
       THEN /\ modality' = WholeBufferModality(cbeff_bytes)
            /\ pc' = "final"
            /\ UNCHANGED result
       ELSE /\ result' = Fail("ModalityUndetected")
            /\ pc' = "done"
            /\ UNCHANGED modality
  /\ UNCHANGED <<call, route, decoder_input, cbeff_bytes>>
  /\ UNCHANGED <<loopVars, request, posts>>

\* parse_cbeff, the final checks and the return
FinalStep ==
  /\ pc = "final"
  /\ result' = BinaryFinish(iso_bytes, modality)
  /\ pc' = "done"
  /\ UNCHANGED <<call, route, decoder_input, cbeff_bytes, modality, iso_bytes, tried>>
  /\ UNCHANGED <<loopVars, request, posts>>

NextParse ==
  \/ Route
  \/ XmlExtract
  \/ Decode
  \/ StructuredStep
  \/ SignatureStep
  \/ FallbackStep
  \/ FinalStep

Spec == InitParse /\ [][NextParse]_vars

(***************************************************************************)
(* convert_cbeff_xml_all_birs.                                             *)
(***************************************************************************)
InitAll ==
  /\ call \in AllBirsCalls
  /\ pc = "collect"
  /\ route = "None"
  /\ decoder_input = NoText
  /\ cbeff_bytes = NoBytes
  /\ modality = "None"
  /\ iso_bytes = NoBytes
  /\ tried = {}
  /\ result = Pending
  /\ InitLoopVars

\* parsing the document and collecting its BIRs
CollectStep ==
  /\ pc = "collect"
  /\ IF call.tree = ParseError
       THEN /\ result' = Fail("MalformedXML")
            /\ pc' = "done"
            /\ UNCHANGED bir_elements
     ELSE IF CollectBirsAll(call.tree) = <<>>
       THEN /\ result' = Fail("NoBIRFound")
            /\ pc' = "done"
            /\ UNCHANGED bir_elements
     ELSE /\ bir_elements' = CollectBirsAll(call.tree)
          /\ pc' = "loop"
          /\ UNCHANGED result
  /\ UNCHANGED <<call, route, decoder_input, cbeff_bytes, modality, iso_bytes, tried>>
  /\ UNCHANGED <<bir_idx, results, processed_count, files, log, request, posts>>

\* a log record: the BIR, what was derived from it and how its turn ended
LogEntry(idx, m, subtype, safe, outcome) ==
  [bir_idx |-> idx, modality |-> m, subtype |-> subtype, safe_subtype |-> safe,
   outcome |-> outcome]

\* one turn of the loop over bir_elements
ProcessBir ==
  /\ pc = "loop"
  /\ bir_idx < Len(bir_elements)
  /\ LET doc == call.tree
         bir == bir_elements[bir_idx + 1]
         m == LoopModality(doc, bir)
         subtype == IF m = "None" THEN NoText
                    ELSE SubtypeOf(doc, find_with_ns(doc, bir, TagBDBInfo, FALSE))
         safe_subtype == IF m = "None" THEN NoText
                         ELSE SafeSubtype(subtype, m, bir_idx)
         sent(iso) == Append(posts, JsonPayload(ModalityText(m), IsoVersionOf(m),
                                                iso, DefaultCompression))
     IN  \E iso \in LoopIsoBytes(doc, bir), response \in LoopOutcomes :
           IF m = "None"
             THEN /\ log' = Append(log, LogEntry(bir_idx, m, subtype, safe_subtype,
                                                 "skipped"))
                  /\ UNCHANGED <<results, processed_count, files, posts>>
           ELSE IF iso = NoBytes
             THEN /\ log' = Append(log, LogEntry(bir_idx, m, subtype, safe_subtype,
                                                 "skipped"))
                  /\ UNCHANGED <<results, processed_count, files, posts>>
           ELSE IF response # "image"
             THEN /\ posts' = sent(iso)
                  /\ log' = Append(log, LogEntry(bir_idx, m, subtype, safe_subtype,
                                                 "render_failed"))
                  /\ UNCHANGED <<results, processed_count, files>>
           ELSE /\ posts' = sent(iso)
                /\ files' = FilePut(files, OutputFile(safe_subtype), bir_idx)
                /\ results' = DictPut(results, subtype, OutputFile(safe_subtype))
                /\ processed_count' = processed_count + 1
                /\ log' = Append(log, LogEntry(bir_idx, m, subtype, safe_subtype,
                                               "processed"))
  /\ bir_idx' = bir_idx + 1
  /\ UNCHANGED <<bir_elements, parseVars, request>>

\* after the loop: the error when nothing was processed, else the dict
FinishAll ==
  /\ pc = "loop"
  /\ bir_idx = Len(bir_elements)
  /\ result' = IF processed_count = 0 THEN Fail("NoUsableBIR")
               ELSE Ok(NoBytes, "None", "None")
  /\ pc' = "done"
  /\ UNCHANGED <<call, route, decoder_input, cbeff_bytes, modality, iso_bytes, tried>>
  /\ UNCHANGED <<loopVars, request, posts>>

NextAll ==
  \/ CollectStep
  \/ ProcessBir
  \/ FinishAll

SpecAll == InitAll /\ [][NextAll]_vars

\* the three extraction calls side by side
InitExtract == InitParse \/ InitAll

NextExtract ==
  \/ Route
  \/ XmlExtract
  \/ Decode
  \/ StructuredStep
  \/ SignatureStep
  \/ FallbackStep
  \/ FinalStep
  \/ CollectStep
  \/ ProcessBir
  \/ FinishAll

SpecExtract == InitExtract /\ [][NextExtract]_vars

(***************************************************************************)
(* convert_cbeff_from_file, convert_cbeff_to_image, convert_iso_to_image.  *)
(***************************************************************************)
\* a conversion call: the container (NoText for a file that does not
\* exist), the optional overrides and the arguments passed on to the renderer
ConvertCall(op, text, tree, m, version, bytes, ratio, path) ==
  [op |-> op, text |-> text, tree |-> tree, modality |-> m,
   iso_version |-> version, iso_bytes |-> bytes,
   compression_ratio |-> ratio, output_path |-> path]

\* "finger", "Voice", "out.jpg", "ISO19794_4_2005"
TxtFingerLower == <<102, 105, 110, 103, 101, 114>>
TxtOutJpg == <<111, 117, 116, 46, 106, 112, 103>>
OtherVersion == "ISO19794_4_2005"

\* containers: a document for each modality, one with an unknown Type, a
\* text that is not XML, a structured buffer with the SBH "FMR", twelve zero
\* bytes, "FAC" after five zero bytes, and the empty text
Containers ==
  { <<XmlProlog, SingleBir(0, t, TxtQQ)>> :
      t \in {TxtFingerMinutiae, TxtIrisImage, TxtFace, TxtVoice} }
  \cup { <<XmlProlog, ParseError>> }
  \cup { <<B64Encode(b), ParseError>> :
           b \in { Structured(PackBE32(3), KwFMR, PackBE32(1), <<65>>, <<>>),
                   Fill(12), Fill(5) \o KwFAC } }
  \cup { <<<<>>, ParseError>> }

ModalityOverrides == {NoText, <<>>, TxtFingerLower, KwIRIS, KwFACE, TxtVoice}
VersionOverrides == {"None", "", OtherVersion}
CompressionRatios == {0, 1, DefaultCompression, 100, 101}
OutputPaths == {NoText, <<>>, TxtOutJpg}

ConvertCalls ==
  { ConvertCall(op, c[1], c[2], m, v, NoBytes, DefaultCompression, o) :
      op \in {"convert_cbeff_to_image", "convert_cbeff_from_file"},
      c \in Containers, m \in ModalityOverrides, v \in VersionOverrides,
      o \in OutputPaths }
  \cup { ConvertCall("convert_cbeff_to_image", c[1], c[2], NoText, "None", NoBytes,
                     r, TxtOutJpg) : c \in Containers, r \in CompressionRatios }
  \cup { ConvertCall("convert_cbeff_from_file", NoText, ParseError, NoText, "None",
                     NoBytes, DefaultCompression, TxtOutJpg) }
  \cup { ConvertCall("convert_iso_to_image", <<>>, ParseError, m, v, b, r, o) :
           m \in {KwFINGER, KwIRIS, TxtFace, TxtFingerLower, TxtVoice, <<>>,
                  KwFINGER \o <<83>>},
           v \in {"ISO19794_4_2011", OtherVersion}, b \in {<<65>>, <<>>},
           r \in CompressionRatios, o \in OutputPaths }

InitConvert ==
  /\ call \in ConvertCalls
  /\ pc = CASE call.op = "convert_cbeff_from_file" -> "read"
            [] call.op = "convert_cbeff_to_image" -> "start"
            [] OTHER -> "render"
  /\ route = "None"
  /\ decoder_input = NoText
  /\ cbeff_bytes = NoBytes
  /\ modality = "None"
  /\ iso_bytes = NoBytes
  /\ tried = {}
  /\ result = Pending
  /\ bir_elements = <<>>
  /\ bir_idx = 0
  /\ results = {}
  /\ processed_count = 0
  /\ files = {}
  /\ log = <<>>
  /\ request = IF call.op = "convert_iso_to_image"
                 THEN Request(call.modality, call.iso_version, call.iso_bytes,
                              call.compression_ratio, call.output_path)
                 ELSE NoRequest
  /\ posts = <<>>

\* convert_cbeff_from_file: reading and stripping the file.  call.tree is
\* what ET.fromstring makes of the stripped content.
ReadFile ==
  /\ pc = "read"
  /\ IF call.text = NoText
       THEN /\ result' = Fail("FileNotFound")
            /\ pc' = "returned"
     ELSE IF Strip(call.text) = <<>>
       THEN /\ result' = Fail("FileUnreadable")
            /\ pc' = "returned"
     ELSE /\ pc' = "start"
          /\ UNCHANGED result
  /\ UNCHANGED <<call, route, decoder_input, cbeff_bytes, modality, iso_bytes, tried>>
  /\ UNCHANGED <<loopVars, request, posts>>

\* convert_cbeff_to_image after parse_cbeff has returned or raised
ApplyOverrides ==
  /\ pc = "done"
  /\ call.op \in {"convert_cbeff_to_image", "convert_cbeff_from_file"}
  /\ IF result.status # "ok"
       THEN /\ pc' = "returned"
            /\ UNCHANGED request
       ELSE /\ request' = Request(FinalModality(call.modality, result.modality),
                                  FinalVersion(call.iso_version, result.iso_version),
                                  result.bdb, call.compression_ratio,
                                  call.output_path)
            /\ pc' = "render"
  /\ UNCHANGED <<call, route, decoder_input, cbeff_bytes, modality, iso_bytes, tried,
                 result>>
  /\ UNCHANGED <<loopVars, posts>>

\* convert_iso_to_image
ConvertIsoToImage ==
  /\ pc = "render"
  /\ IF UnsupportedModality(request.modality)
       THEN /\ result' = Fail("UnsupportedModality")
            /\ UNCHANGED <<posts, files>>
     ELSE IF CompressionOutOfRange(request.compression_ratio)
       THEN /\ result' = Fail("CompressionOutOfRange")
            /\ UNCHANGED <<posts, files>>
     ELSE /\ posts' = Append(posts, JsonPayload(request.modality, request.iso_version,
                                                request.iso_bytes,
                                                request.compression_ratio))
          /\ \E response \in RenderOutcomes :
               IF response = "image"
                 THEN /\ files' = IF Truthy(request.output_path)
                                    THEN FilePut(files, request.output_path, 0)
                                    ELSE files
                      /\ result' = Rendered(ImageBytes)
               ELSE IF response = "empty"
                 THEN /\ result' = Fail("EmptyImageResponse")
                      /\ UNCHANGED files
               ELSE /\ result' = Fail("RequestFailed")
                    /\ UNCHANGED files
  /\ pc' = "returned"
  /\ UNCHANGED <<call, route, decoder_input, cbeff_bytes, modality, iso_bytes, tried>>
  /\ UNCHANGED <<bir_elements, bir_idx, results, processed_count, log, request>>

NextConvert ==
  \/ ReadFile
  \/ Route
  \/ XmlExtract
  \/ Decode
  \/ StructuredStep
  \/ SignatureStep
  \/ FallbackStep
  \/ FinalStep
  \/ ApplyOverrides
  \/ ConvertIsoToImage

SpecConvert == InitConvert /\ [][NextConvert]_vars

(***************************************************************************)
(* Properties of parse_cbeff_xml and parse_cbeff (specification Spec).     *)
(***************************************************************************)
Finished == pc = "done"

\* C1: a single-BIR document whose Type is "Finger Minutiae Record" and
\* whose BDB text is the base64 encoding of a non-empty byte string b yields
\* exactly (b, FINGER, ISO19794_4_2011), through parse_cbeff_xml and through
\* parse_cbeff.
C1_RoundTrip ==
  \A b \in Payloads, ns \in {0, 1} :
    (Finished /\ call.tree = SingleBir(ns, TxtFingerMinutiae, B64Encode(b)))
      => result = Ok(b, "FINGER", "ISO19794_4_2011")

\* a 3-byte payload in a namespaced document has come back from parse_cbeff
C1_Witness ==
  /\ Finished
  /\ call.op = "parse_cbeff"
  /\ call.tree = SingleBir(1, TxtFingerMinutiae, B64Encode(<<0, 65, 255>>))
  /\ result.status = "ok"
  /\ result.bdb = <<0, 65, 255>>

\* the version table of the specification
VersionTable ==
  [m \in Modalities |->
     CASE m = "FINGER" -> "ISO19794_4_2011"
       [] m = "IRIS" -> "ISO19794_6_2011"
       [] m = "FACE" -> "ISO19794_5_2011"]

\* C2: every successful result carries the version the table gives for its
\* modality.
C2_VersionOfModality ==
  result.status = "ok" =>
    /\ result.modality \in DOMAIN VersionTable
    /\ result.iso_version = VersionTable[result.modality]

\* a FACE result of the binary extractor
C2_Witness ==
  Finished /\ route = "binary" /\ result.status = "ok" /\ result.modality = "FACE"

\* the Type text of the BIR that parse_cbeff_xml extracts from resolves no
\* modality
XmlUnresolved ==
  /\ "xml" \in tried
  /\ call.tree # ParseError
  /\ CollectBirsXml(call.tree) # <<>>
  /\ XmlModality(call.tree, ChooseBir(call.tree, CollectBirsXml(call.tree))) = "None"

\* C3: a successful result has modality FINGER, IRIS or FACE, and a call
\* in which nothing resolved a modality fails: the unset modality is never
\* replaced by a default.
C3_ModalityResolved ==
  /\ result.status = "ok" => result.modality \in Modalities
  /\ (Finished /\ route = "binary" /\ modality = "None") => result.status = "error"
  /\ (Finished /\ XmlUnresolved) => result.status = "error"

\* a document with Type "Voice" and a valid BDB has failed for its modality
C3_Witness ==
  /\ Finished
  /\ XmlUnresolved
  /\ result = Fail("ModalityUndetected")

\* the buffer has the layout of step 1 with a BDB-length field of 0
ZeroLengthBdbLayout(b) ==
  /\ Len(b) >= 12
  /\ LET S == UnpackBE32(SubSeq(b, 9, 12))
     IN  /\ S > 0
         /\ 12 + S + 4 <= Len(b)
         /\ UnpackBE32(SubSeq(b, 12 + S + 1, 12 + S + 4)) = 0

\* C4: a successful result has a non-empty bdb; a container whose
\* structured layout has BDB length 0 fails with the empty-BDB error and no
\* later heuristic is entered.
C4_NonEmptyBdb ==
  /\ result.status = "ok" => (result.bdb # NoBytes /\ Len(result.bdb) > 0)
  /\ (Finished /\ cbeff_bytes # NoBytes /\ ~TooShort(cbeff_bytes)
        /\ ZeroLengthBdbLayout(cbeff_bytes))
       => (result = Fail("NoIsoBytes") /\ tried = {"structured"})

\* a container with SBH "FMR" and BDB length 0 has failed
C4_Witness ==
  /\ Finished
  /\ cbeff_bytes # NoBytes
  /\ ~TooShort(cbeff_bytes)
  /\ ZeroLengthBdbLayout(cbeff_bytes)
  /\ modality = "FINGER"
  /\ result = Fail("NoIsoBytes")

\* the text, after its leading white space, begins with "<?xml" or "<BIR"
BeginsLikeXml(text) ==
  \E k \in 0..Len(text) :
    /\ \A i \in 1..k : text[i] \in SpaceChars
    /\ \/ (Len(text) >= k + 5 /\ \A j \in 1..5 : text[k + j] = XmlProlog[j])
       \/ (Len(text) >= k + 4 /\ \A j \in 1..4 : text[k + j] = BirOpen[j])

\* C5: parse_cbeff routes to the XML extractor exactly the inputs that
\* begin, after white space, with "<?xml" or "<BIR"; an input routed to XML
\* never reaches the decoder or a heuristic, and an input routed to binary
\* never reaches the XML extractor.
C5_Routing ==
  (call.op = "parse_cbeff" /\ pc # "start") =>
    /\ route = "xml" <=> BeginsLikeXml(call.text)
    /\ route = "binary" <=> ~BeginsLikeXml(call.text)
    /\ route = "xml" =>
         (tried \subseteq {"xml"} /\ decoder_input = NoText /\ cbeff_bytes = NoBytes)
    /\ route = "binary" => "xml" \notin tried

\* a text with white space in front of "<BIR" was routed to XML and failed there
C5_Witness ==
  /\ Finished
  /\ call.op = "parse_cbeff"
  /\ call.text = <<32, 10>> \o BirOpen
  /\ route = "xml"
  /\ tried = {"xml"}
  /\ result.status = "error"

\* the binary input has no base64 character at all
NoBase64Chars == \A i \in 1..Len(call.text) : ~(IsB64Digit(call.text[i]) \/ call.text[i] = PadChar)

\* the binary input was decoded to fewer than 8 bytes
DecodedShort == cbeff_bytes # NoBytes /\ Len(cbeff_bytes) < 8

\* C6 as stated: a binary input that decodes to fewer than 8 bytes, an
\* input without base64 characters included, fails with ContainerTooShort
\* and no heuristic is entered.
C6_Original ==
  (Finished /\ route = "binary" /\ (DecodedShort \/ NoBase64Chars))
    => (result = Fail("ContainerTooShort") /\ tried = {})

\* C6 amended: a binary input that decodes to fewer than 8 bytes fails with
\* ContainerTooShort, an input without base64 characters fails with the
\* empty-input error, and in both cases no heuristic is entered.
C6_ShortContainer ==
  /\ (Finished /\ route = "binary" /\ DecodedShort)
       => (result = Fail("ContainerTooShort") /\ tried = {})
  /\ (Finished /\ route = "binary" /\ NoBase64Chars)
       => (result = Fail("EmptyInput") /\ tried = {} /\ cbeff_bytes = NoBytes)

\* a container of 7 bytes was rejected
C6_Witness ==
  /\ Finished
  /\ route = "binary"
  /\ cbeff_bytes # NoBytes
  /\ Len(cbeff_bytes) = 7
  /\ result = Fail("ContainerTooShort")

\* none of the six signatures occurs in the buffer
NoSignature(b) ==
  \A sig \in {SigIso4, SigIso5, SigIso6, KwFMR, KwIRI, KwFAC} :
    \A i \in 1..Len(b) :
      ~(i + Len(sig) - 1 <= Len(b) /\ \A j \in 1..Len(sig) : b[i + j - 1] = sig[j])

\* the buffer has the layout [8][SBH length S][SBH][BDB length B][BDB]
ValidLayout(b) ==
  /\ Len(b) >= 12
  /\ LET S == UnpackBE32(SubSeq(b, 9, 12))
     IN  /\ S > 0
         /\ 12 + S + 4 <= Len(b)
         /\ 16 + S + UnpackBE32(SubSeq(b, 12 + S + 1, 12 + S + 4)) <= Len(b)

\* C7: a decoded buffer of at least 8 bytes without signature and without
\* a valid structured layout fails with ModalityUndetected; nothing is
\* returned.
C7_NoGuess ==
  (Finished /\ cbeff_bytes # NoBytes /\ Len(cbeff_bytes) >= 8
     /\ NoSignature(cbeff_bytes) /\ ~ValidLayout(cbeff_bytes))
    => result = Fail("ModalityUndetected")

\* the last resort has assigned the whole buffer to iso_bytes and the call
\* has failed
C7_Witness ==
  /\ Finished
  /\ cbeff_bytes # NoBytes
  /\ Len(cbeff_bytes) >= 8
  /\ NoSignature(cbeff_bytes)
  /\ ~ValidLayout(cbeff_bytes)
  /\ "fallback" \in tried
  /\ iso_bytes = cbeff_bytes
  /\ result = Fail("ModalityUndetected")

(***************************************************************************)
(* Properties of convert_cbeff_xml_all_birs (specification SpecAll).       *)
(***************************************************************************)
\* positions of the log whose BIR had a recognised Type and a usable BDB
UsableTurns == { i \in 1..Len(log) : log[i].outcome # "skipped" }

ProcessedTurns == { i \in 1..Len(log) : log[i].outcome = "processed" }

RendererAlwaysSucceeded == \A i \in 1..Len(log) : log[i].outcome # "render_failed"

\* C8: with a renderer that always succeeds, the call returns one entry
\* for each of the M usable BIRs, whatever their subtypes, and fails with
\* NoUsableBIR exactly when M = 0.
C8_OneEntryPerUsableBir ==
  (Finished /\ bir_elements # <<>> /\ RendererAlwaysSucceeded) =>
    /\ result = Fail("NoUsableBIR") <=> Cardinality(UsableTurns) = 0
    /\ Cardinality(UsableTurns) > 0 =>
         (result.status = "ok" /\ Cardinality(results) = Cardinality(UsableTurns))

\* the key the claim derives from a subtype: the characters in keep, each
\* run of hyphens and white space turned into one underscore, no underscore
\* at either end
KeyOfSubtype(subtype, keep) ==
  LET Kept(c) == c \in keep
      kept == SelectSeq(subtype, Kept)
      marked == [i \in 1..Len(kept) |->
                   IF kept[i] \in HyphenSpace
                     THEN (IF i > 1 /\ kept[i - 1] \in HyphenSpace THEN -1 ELSE 95)
                     ELSE kept[i]]
      NotDropped(c) == c # -1
      folded == SelectSeq(marked, NotDropped)
      inner == { i \in 1..Len(folded) : folded[i] # 95 }
  IN  IF inner = {} THEN <<>>
      ELSE SubSeq(folded, CHOOSE i \in inner : \A j \in inner : i <= j,
                          CHOOSE i \in inner : \A j \in inner : i >= j)

\* {modality}_{i} for the 1-based position i, i < 10
OrdinalKey(m, i) ==
  (CASE m = "FINGER" -> KwFINGER [] m = "IRIS" -> KwIRIS [] m = "FACE" -> KwFACE)
  \o <<95, 48 + i>>

DerivedKey(subtype, m, i, keep) ==
  IF subtype # NoText /\ KeyOfSubtype(subtype, keep) # <<>>
    THEN KeyOfSubtype(subtype, keep)
    ELSE OrdinalKey(m, i)

Alphanumerics == (48..57) \cup (65..90) \cup (97..122)

\* C9 as stated: the name under which a processed BIR is written keeps
\* only alphanumerics, hyphens and white space of the subtype.
C9_Original ==
  \A i \in ProcessedTurns :
    log[i].safe_subtype =
      DerivedKey(log[i].subtype, log[i].modality, i, Alphanumerics \cup HyphenSpace)

\* C9 amended: the name under which a processed BIR is written keeps the
\* alphanumerics, underscores, hyphens and white space of the subtype, folds
\* each run of hyphens and white space into one underscore and trims
\* underscores; without a subtype, or when nothing is left, it is
\* {modality}_{i}, i the 1-based position among all collected BIRs.
C9_SafeSubtype ==
  \A i \in ProcessedTurns :
    /\ log[i].bir_idx = i - 1
    /\ log[i].safe_subtype =
         DerivedKey(log[i].subtype, log[i].modality, i,
                    Alphanumerics \cup {95} \cup HyphenSpace)

\* "Right_Thumb_Minor" and "FINGER_3"
TxtRightThumbMinorKey ==
  <<82, 105, 103, 104, 116, 95, 84, 104, 117, 109, 98, 95, 77, 105, 110, 111, 114>>
TxtFinger3 == <<70, 73, 78, 71, 69, 82, 95, 51>>

\* "Right Thumb (Minor)" was written as Right_Thumb_Minor and a finger
\* without subtype in third position, after a skipped BIR, as FINGER_3
C9_Witness ==
  /\ Len(log) = 3
  /\ log[1].outcome = "processed"
  /\ log[1].subtype = TxtRightThumbMinor
  /\ log[1].safe_subtype = TxtRightThumbMinorKey
  /\ log[2].outcome = "skipped"
  /\ log[3].outcome = "processed"
  /\ log[3].subtype = NoText
  /\ log[3].safe_subtype = TxtFinger3

\* C10: two different processed BIRs of a call have different keys and
\* different file paths, so that no entry and no file is overwritten.
C10_DistinctKeysAndFiles ==
  /\ \A i, j \in ProcessedTurns :
       i # j => /\ log[i].subtype # log[j].subtype
                /\ OutputFile(log[i].safe_subtype) # OutputFile(log[j].safe_subtype)
  /\ Cardinality(results) = Cardinality(ProcessedTurns)
  /\ Cardinality(files) = Cardinality(ProcessedTurns)

(***************************************************************************)
(* Properties of the conversion calls (specification SpecConvert).         *)
(***************************************************************************)
Returned == pc = "returned"

ThroughParse == call.op \in {"convert_cbeff_to_image", "convert_cbeff_from_file"}

\* the caller names one of the three modalities
SupportedOverride == Truthy(call.modality) /\ ~UnsupportedModality(call.modality)

\* twelve zero bytes: decodable, no signature, no SBH keyword
UndetectedContainer == B64Encode(Fill(12))

\* C11: a conversion call that names a supported modality does not fail with
\* the modality-undetected error; for the container of twelve zero bytes it
\* sends one request to the renderer, with the caller's modality.
C11_OverrideRescues ==
  (Returned /\ ThroughParse /\ SupportedOverride)
    => /\ result # Fail("ModalityUndetected")
       /\ call.text = UndetectedContainer
            => (Len(posts) = 1 /\ posts[1].modality = Upper(call.modality))

\* the modality a request names
SentModality(post) == CHOOSE m \in Modalities : ModalityText(m) = post.modality

\* C12: when the caller gives no iso_version, every request that
\* convert_cbeff_to_image sends carries the version that the table assigns
\* to the modality of that request, with or without a modality override.
C12_VersionOfSentModality ==
  (ThroughParse /\ call.iso_version = "None")
    => \A i \in 1..Len(posts) :
         posts[i].isoVersion = VersionTable[SentModality(posts[i])]

\* the arguments convert_iso_to_image accepts
ValidRenderArgs ==
  /\ Upper(request.modality) \in {KwFINGER, KwIRIS, KwFACE}
  /\ request.compression_ratio \in 1..100

\* C15: a convert_iso_to_image call with a modality outside FINGER, IRIS,
\* FACE (after upper-casing) or a compression_ratio outside 1..100 ends with
\* a ValueError, no request sent and no file written; a call with valid
\* arguments sends exactly one request, and its output file exists exactly
\* when the response carried an image and an output path was given.
C15_RenderValidation ==
  (Returned /\ request # NoRequest) =>
    /\ ~ValidRenderArgs
         => /\ result.status = "error"
            /\ ErrorClass(result.error) = "ValueError"
            /\ posts = <<>>
            /\ files = {}
    /\ ValidRenderArgs
         => /\ Len(posts) = 1
            /\ posts[1].compressionRatio = request.compression_ratio
            /\ files = IF result.status = "ok" /\ Truthy(request.output_path)
                         THEN {[path |-> request.output_path, owner |-> 0]}
                         ELSE {}
            /\ result.status = "ok" <=> result = Rendered(ImageBytes)

\* convert_iso_to_image("FINGER", ..., compression_ratio = 0, "out.jpg") has
\* been refused
C15_Witness ==
  /\ Returned
  /\ call.op = "convert_iso_to_image"
  /\ request.modality = KwFINGER
  /\ request.compression_ratio = 0
  /\ request.output_path = TxtOutJpg
  /\ result = Fail("CompressionOutOfRange")


(***************************************************************************)
(* Further properties of convert_cbeff_xml_all_birs (SpecAll).             *)
(***************************************************************************)
\* C13: when the renderer request of some BIR fails, the call ends with a
\* requests.RequestException: not with a ValueError and not with a result
\* from which that BIR is missing.
C13_RendererFailureRaised ==
  (Finished /\ ~RendererAlwaysSucceeded)
    => (result.status = "error" /\ ErrorClass(result.error) = "RequestException")

(***************************************************************************)
(* Properties of the three extraction calls (specification SpecExtract).   *)
(***************************************************************************)
\* the seven error kinds of the error-handling design
ListedKinds ==
  {"MalformedXML", "NoBIRFound", "ModalityUndetected", "MissingOrEmptyBDB",
   "InvalidBDBEncoding", "ContainerTooShort", "NoUsableBIR"}

\* the listed kind a failure of the code belongs to: "BDB contains no data"
\* and "Could not extract ISO bytes from CBEFF" are an empty or absent BDB
KindOf(error) ==
  IF error \in {"EmptyBDB", "NoIsoBytes"} THEN "MissingOrEmptyBDB" ELSE error

\* the two failures of parse_cbeff that precede the container: no base64
\* character in the input, and a container text the decoder rejects
ContainerTextKinds == {"EmptyInput", "InvalidContainerBase64"}

\* C14 as stated: every finished extraction call has a result or a failure
\* of one of the seven listed kinds.
C14_Original ==
  Finished => (result.status = "ok" \/ KindOf(result.error) \in ListedKinds)

\* C14: every finished extraction call has a result or one failure, of a
\* listed kind or of one of the two container-text kinds; a binary input
\* fails as empty input exactly when it has no base64 character, and as
\* undecodable only when it has one and nothing was decoded.
C14_FailureKinds ==
  Finished =>
    /\ result.status \in {"ok", "error"}
    /\ result.status = "ok" => result.error = "None"
    /\ result.status = "error"
         => KindOf(result.error) \in ListedKinds \cup ContainerTextKinds
    /\ result = Fail("EmptyInput") <=> (route = "binary" /\ NoBase64Chars)
    /\ result = Fail("InvalidContainerBase64")
         => (route = "binary" /\ ~NoBase64Chars /\ cbeff_bytes = NoBytes)
    /\ call.op # "parse_cbeff" => result.error \notin ContainerTextKinds

\* the text "A" was routed to the decoder and rejected by it
C14_Witness ==
  /\ Finished
  /\ call.op = "parse_cbeff"
  /\ call.text = <<65>>
  /\ result = Fail("InvalidContainerBase64")

\* C16: convert_cbeff_xml_all_birs collects the BIRs that parse_cbeff_xml
\* collects from the same document, the root in front when it is a BIR, and
\* fails with NoBIRFound exactly when that collection is empty.
C16_SameBirSet ==
  (Finished /\ call.op = "convert_cbeff_xml_all_birs" /\ call.tree # ParseError)
    => /\ result = Fail("NoBIRFound") <=> CollectBirsXml(call.tree) = <<>>
       /\ result # Fail("NoBIRFound") => bir_elements = CollectBirsXml(call.tree)

(***************************************************************************)
(* Properties of parse_cbeff_xml (specification Spec).                     *)
(***************************************************************************)
\* the call went through parse_cbeff_xml and the document has BIRs
XmlExtracted ==
  /\ Finished
  /\ "xml" \in tried
  /\ call.tree # ParseError
  /\ CollectBirsXml(call.tree) # <<>>

\* positions, in collection order, of the BIRs with a BDBInfo and a BDB
CompleteBirs ==
  { i \in 1..Len(CollectBirsXml(call.tree)) :
      /\ find_with_ns(call.tree, CollectBirsXml(call.tree)[i], TagBDBInfo, FALSE) # NoElem
      /\ find_with_ns(call.tree, CollectBirsXml(call.tree)[i], TagBDB, FALSE) # NoElem }

\* the BIR the claim names: the first complete one, else the first
ClaimedBir ==
  IF CompleteBirs = {} THEN CollectBirsXml(call.tree)[1]
  ELSE CollectBirsXml(call.tree)[CHOOSE i \in CompleteBirs :
                                   \A j \in CompleteBirs : i <= j]

\* what extracting from one BIR of the document comes to
ExtractionOf(doc, bir) ==
  LET bdb == find_with_ns(doc, bir, TagBDB, FALSE)
  IN  IF TextMissing(doc, bdb) THEN {Fail("MissingOrEmptyBDB")}
      ELSE { XmlFinish(iso, XmlModality(doc, bir)) :
               iso \in B64DecodeStrict(Strip(NodeAt(doc, bdb).text)) }

ChosenBdb == find_with_ns(call.tree, ClaimedBir, TagBDB, FALSE)

ChosenDecodings == B64DecodeStrict(Strip(NodeAt(call.tree, ChosenBdb).text))

\* the Type of the chosen BIR is absent or matches no keyword
ChosenUnresolved == XmlModality(call.tree, ClaimedBir) = "None"

\* C18 as stated: a chosen BIR without a recognised Type fails with
\* ModalityUndetected, whatever its BDB.
C18_Original ==
  (XmlExtracted /\ ChosenUnresolved) => result = Fail("ModalityUndetected")

\* C18: the BDB checks come first.  A chosen BIR without a BDB text fails
\* with MissingOrEmptyBDB; one whose text does not decode, or decodes to
\* nothing, fails with that error; ModalityUndetected is the failure of a
\* BIR without a recognised Type whose BDB decodes to at least one byte; a
\* BIR without a recognised Type never gives a result.
C18_CheckOrder ==
  XmlExtracted =>
    /\ TextMissing(call.tree, ChosenBdb) => result = Fail("MissingOrEmptyBDB")
    /\ result = Fail("ModalityUndetected")
         => /\ ChosenUnresolved
            /\ ~TextMissing(call.tree, ChosenBdb)
            /\ \E iso \in ChosenDecodings : iso # DecodeError /\ Len(iso) > 0
    /\ (ChosenUnresolved /\ ~TextMissing(call.tree, ChosenBdb))
         => /\ result.status = "error"
            /\ result.error \in {"InvalidBDBEncoding", "EmptyBDB", "ModalityUndetected"}
            /\ result.error = "InvalidBDBEncoding" => DecodeError \in ChosenDecodings
            /\ result.error = "EmptyBDB" => <<>> \in ChosenDecodings

\* a BIR of Type "Voice" with the BDB text "Q" failed for its BDB encoding
C18_Witness ==
  /\ XmlExtracted
  /\ call.tree = SingleBir(0, TxtVoice, <<81>>)
  /\ result = Fail("InvalidBDBEncoding")

(***************************************************************************)
(* Modality classification at its three sites (specification SpecExtract). *)
(***************************************************************************)
\* t contains the upper-case keyword kw in some mix of cases
HasKeyword(t, kw) ==
  \E i \in 0..(Len(t) - Len(kw)) :
    \A j \in 1..Len(kw) : t[i + j] = kw[j] \/ t[i + j] = kw[j] + 32

\* the classification of the claim
KeywordClass(t) ==
  IF HasKeyword(t, KwFINGER) \/ HasKeyword(t, KwFMR) THEN "FINGER"
  ELSE IF HasKeyword(t, KwIRIS) \/ HasKeyword(t, KwIRI) THEN "IRIS"
  ELSE IF HasKeyword(t, KwFACE) \/ HasKeyword(t, KwFAC) THEN "FACE"
  ELSE "None"

\* the Type text of a BIR, NoText when there is none to classify
TypeTextOf(doc, bir) ==
  LET bdbinfo == find_with_ns(doc, bir, TagBDBInfo, FALSE)
      type_elem == IF bdbinfo = NoElem THEN NoElem ELSE TypeElemOf(doc, bdbinfo)
  IN  IF TextMissing(doc, type_elem) THEN NoText ELSE NodeAt(doc, type_elem).text

\* the classification of a BIR's Type text, "None" without a text
TypeClass(doc, bir) ==
  IF TypeTextOf(doc, bir) = NoText THEN "None" ELSE KeywordClass(TypeTextOf(doc, bir))

\* the structured scan has just run on a buffer with an SBH region
SbhScanned ==
  /\ tried = {"structured"}
  /\ pc \in {"signature", "final"}
  /\ Len(cbeff_bytes) >= 12
  /\ 0 < UnpackBE32(Slice(cbeff_bytes, 8, 12))
  /\ UnpackBE32(Slice(cbeff_bytes, 8, 12)) < Len(cbeff_bytes) - 12

\* C19: parse_cbeff_xml, the loop of convert_cbeff_xml_all_birs and the
\* structured scan all classify their text by the keywords it contains in
\* any case, FINGER/FMR before IRIS/IRI before FACE/FAC, else unresolved.
C19_KeywordClass ==
  /\ XmlExtracted
       => /\ result.status = "ok" => result.modality = TypeClass(call.tree, ClaimedBir)
          /\ result = Fail("ModalityUndetected")
               => TypeClass(call.tree, ClaimedBir) = "None"
  /\ \A i \in 1..Len(log) :
       log[i].modality = TypeClass(call.tree, bir_elements[i])
  /\ SbhScanned
       => modality = KeywordClass(Utf8Ignore(
            Slice(cbeff_bytes, 12, 12 + UnpackBE32(Slice(cbeff_bytes, 8, 12)))))

\* "Face of Iris" was classified IRIS by parse_cbeff_xml
C19_Witness ==
  /\ XmlExtracted
  /\ call.tree = SingleBir(0, TxtFaceOfIris, TxtQQ)
  /\ result = Ok(<<65>>, "IRIS", "ISO19794_6_2011")

(***************************************************************************)
(* The structured scan (specification Spec).                               *)
(***************************************************************************)
\* S and B of the layout [8-byte header][S][SBH][B][BDB]
SbhLen == UnpackBE32(Slice(cbeff_bytes, 8, 12))

BdbLen == UnpackBE32(Slice(cbeff_bytes, 12 + SbhLen, 16 + SbhLen))

\* n >= 12, S > 0, 12 + S + 4 <= n and 16 + S + B <= n
LayoutFits ==
  /\ cbeff_bytes # NoBytes
  /\ Len(cbeff_bytes) >= 12
  /\ SbhLen > 0
  /\ 12 + SbhLen + 4 <= Len(cbeff_bytes)
  /\ 16 + SbhLen + BdbLen <= Len(cbeff_bytes)

\* bytes[16+S, 16+S+B) and the classification of bytes[12, 12+S)
LayoutBdb == SubSeq(cbeff_bytes, 17 + SbhLen, 16 + SbhLen + BdbLen)

LayoutClass == KeywordClass(Utf8Ignore(SubSeq(cbeff_bytes, 13, 12 + SbhLen)))

\* C20: on a buffer that fits the layout the structured scan yields
\* bytes[16+S, 16+S+B) and the classification of bytes[12, 12+S); with
\* B > 0 and a keyword in the SBH, parse_cbeff returns that BDB with that
\* modality and its version.
C20_StructuredScan ==
  /\ (LayoutFits /\ tried = {"structured"} /\ pc \in {"signature", "final"})
       => (iso_bytes = LayoutBdb /\ modality = LayoutClass /\ pc = "final")
  /\ (LayoutFits /\ Finished /\ BdbLen > 0 /\ LayoutClass # "None")
       => result = Ok(LayoutBdb, LayoutClass, VersionTable[LayoutClass])

\* [8 zero bytes][3]["FMR"][1]["A"], the BDB ending where the buffer ends,
\* came back as ("A", FINGER, ISO19794_4_2011)
C20_Witness ==
  /\ Finished
  /\ cbeff_bytes = Structured(PackBE32(3), KwFMR, PackBE32(1), <<65>>, <<>>)
  /\ LayoutFits
  /\ result = Ok(<<65>>, "FINGER", "ISO19794_4_2011")

\* the structured scan has just run
AfterStructured == tried = {"structured"} /\ pc \in {"signature", "final"}

\* C21: every decoded buffer of at least 8 bytes goes through the
\* structured scan, and the scan ends without a failure of the call: with a
\* candidate BDB of exactly B bytes inside the buffer when the length fields
\* fit, and otherwise with the BDB unset and the signature scan next,
\* whatever the SBH-length and BDB-length fields hold.
C21_StructuredNeverFails ==
  /\ (cbeff_bytes # NoBytes /\ Len(cbeff_bytes) >= 8 /\ pc # "structured")
       => "structured" \in tried
  /\ AfterStructured
       => /\ result = Pending
          /\ iso_bytes = NoBytes <=> ~LayoutFits
          /\ iso_bytes = NoBytes => pc = "signature"
          /\ iso_bytes # NoBytes
               => (pc = "final" /\ iso_bytes = LayoutBdb /\ Len(iso_bytes) = BdbLen)

\* an SBH "FMR" followed by the BDB length 0xFFFFFFFF: the scan left the BDB
\* unset and handed over to the signature scan
C21_Witness ==
  /\ AfterStructured
  /\ cbeff_bytes = Structured(PackBE32(3), KwFMR, MaxField, <<65>>, <<>>)
  /\ modality = "FINGER"
  /\ iso_bytes = NoBytes
  /\ pc = "signature"

(***************************************************************************)
(* The heuristic ladder of parse_cbeff (specification Spec).               *)
(***************************************************************************)
\* the step enters the rung
Enters(rung) == rung \in tried' /\ rung \notin tried

\* C22: the rungs are entered in the order structured scan, signature scan,
\* whole-buffer fallback, each later one only while no BDB was found; once a
\* BDB is there, no rung is entered and the BDB and the modality stay as
\* they are.
C22_LadderOrder ==
  [][ /\ iso_bytes # NoBytes
           => (iso_bytes' = iso_bytes /\ modality' = modality /\ tried' = tried)
      /\ Enters("structured") => tried = {}
      /\ Enters("signature") => (tried = {"structured"} /\ iso_bytes = NoBytes)
      /\ Enters("fallback")
           => (tried = {"structured", "signature"} /\ iso_bytes = NoBytes)
    ]_vars

\* the structured scan found the BDB of a buffer that holds "FMR", which
\* the later rungs look for, and the call returned after that one rung
C22_Witness ==
  /\ Finished
  /\ tried = {"structured"}
  /\ Contains(cbeff_bytes, KwFMR)
  /\ result.status = "ok"
  /\ result.bdb = iso_bytes

(***************************************************************************)
(* The signature scan of parse_cbeff (specification Spec).                 *)
(***************************************************************************)
\* the length field at offset i of b
RecordLength(b, i) == UnpackBE32(Slice(b, i, i + 4))

\* the 100-byte window at offset i of b holds a signature
WindowSigned(b, i) == ChunkModality(Slice(b, i, i + WindowLen)) # "None"

\* offsets with a full window in front of the end of the buffer whose
\* window holds a signature and whose record ends before the end
FullWindowOffsets(b) ==
  { i \in 0..(Len(b) - WindowLen - 1) :
      /\ WindowSigned(b, i)
      /\ 0 < RecordLength(b, i)
      /\ i + RecordLength(b, i) < Len(b) }

\* any offset with a length field whose window holds a signature and whose
\* record ends at or before the end of the buffer
AnyWindowOffsets(b) ==
  { i \in 0..(Len(b) - 4) :
      /\ WindowSigned(b, i)
      /\ 0 < RecordLength(b, i)
      /\ i + RecordLength(b, i) <= Len(b) }

FirstOffset(S) == CHOOSE i \in S : \A j \in S : i <= j

\* the signature scan was run
AfterSignature == "signature" \in tried /\ pc # "signature"

\* the record at offset i is the BDB, with the modality of its window
ScanYields(i) ==
  /\ iso_bytes = Slice(cbeff_bytes, i, i + RecordLength(cbeff_bytes, i))
  /\ modality = ChunkModality(Slice(cbeff_bytes, i, i + WindowLen))
  /\ "fallback" \notin tried
  /\ Finished => result = Ok(iso_bytes, modality, IsoVersionOf(modality))

\* C23: when the structured scan found no BDB and the buffer of n > 100
\* bytes has an offset i < n - 100 whose 100-byte window holds a signature
\* and whose length field L is positive with i + L < n, the scan stops at the
\* first such offset and yields bytes[i, i+L) with the modality of the
\* signature, finger before iris before face.
C23_SignatureScan ==
  (AfterSignature /\ FullWindowOffsets(cbeff_bytes) # {})
    => ScanYields(FirstOffset(FullWindowOffsets(cbeff_bytes)))

\* the window at offset 0 holds IRI and FMR, the record of 20 bytes is
\* returned as a finger record
C23_Witness ==
  /\ Finished
  /\ "signature" \in tried
  /\ cbeff_bytes = PackBE32(20) \o KwIRI \o KwFMR \o Fill(WindowLen)
  /\ result = Ok(Slice(cbeff_bytes, 0, 20), "FINGER", IsoVersionOf("FINGER"))

\* C23 as stated: the same for every length n >= 8 and every offset, a
\* record that ends exactly at the end of the buffer included
C23_Original ==
  (AfterSignature /\ AnyWindowOffsets(cbeff_bytes) # {})
    => ScanYields(FirstOffset(AnyWindowOffsets(cbeff_bytes)))

(***************************************************************************)
(* Padding repair of parse_cbeff (specification Spec).                     *)
(***************************************************************************)
\* C25: the string handed to the base64 decoder consists of base64 digits
\* and '=' only and its length is a multiple of 4, whatever the number and
\* the position of the '=' in the input.
C25_PaddingRepaired ==
  (route = "binary" /\ decoder_input # NoText)
    => /\ \A i \in 1..Len(decoder_input) :
            IsB64Digit(decoder_input[i]) \/ decoder_input[i] = PadChar
       /\ Len(decoder_input) % 4 = 0

(***************************************************************************)
(* The record a result of parse_cbeff_xml is read from (specification      *)
(* Spec).                                                                  *)
(***************************************************************************)
\* the innermost BIR around the element at path p, NoElem without one
OwnerBir(doc, p) ==
  LET ks == { k \in 0..(Len(p) - 1) : NodeAt(doc, SubSeq(p, 1, k)).name = TagBIR }
  IN  IF ks = {} THEN NoElem
      ELSE SubSeq(p, 1, CHOOSE k \in ks : \A j \in ks : j <= k)

\* the elements parse_cbeff_xml read the modality and the BDB text from
UsedBir == ChooseBir(call.tree, CollectBirsXml(call.tree))

UsedType ==
  TypeElemOf(call.tree, find_with_ns(call.tree, UsedBir, TagBDBInfo, FALSE))

UsedBdb == find_with_ns(call.tree, UsedBir, TagBDB, FALSE)

\* C26: in a successful result of parse_cbeff_xml the Type that gave the
\* modality and the BDB that was decoded lie in one and the same innermost
\* BIR, nested BIRs below a root BIR included.
C26_SameRecord ==
  (XmlExtracted /\ result.status = "ok")
    => OwnerBir(call.tree, UsedType) = OwnerBir(call.tree, UsedBdb)

(***************************************************************************)
(* The loop of convert_cbeff_xml_all_birs (specification SpecAll).         *)
(***************************************************************************)
\* the step is one turn of the loop, and the record it logs
LoopTurn == pc = "loop" /\ bir_idx' # bir_idx

TurnLogged == log'[Len(log')]

\* the checks of a BIR: BDBInfo, a classified Type, a BDB text that decodes
\* to at least one byte
ChecksPass(doc, bir) ==
  /\ LoopModality(doc, bir) # "None"
  /\ LoopIsoBytes(doc, bir) # {NoBytes}

\* the turn left the mapping, the count and the files as they were
TurnLeftOutputs ==
  /\ results' = results
  /\ processed_count' = processed_count
  /\ files' = files

\* the turn called the renderer, wrote a file and added an entry
TurnProduced ==
  /\ Len(posts') = Len(posts) + 1
  /\ \E f \in files' : f.owner = bir_idx
  /\ \E e \in results' : e.path = OutputFile(TurnLogged.safe_subtype)
  /\ processed_count' = processed_count + 1

\* the BIRs are taken one at a time in collection order; renderer call, file
\* and entry come only after all checks of the BIR passed; a skipped BIR
\* leaves mapping, count and files as they were
LoopFrame ==
  LoopTurn =>
    /\ bir_idx' = bir_idx + 1
    /\ Len(log') = Len(log) + 1
    /\ TurnLogged.bir_idx = bir_idx
    /\ TurnLogged.outcome = "processed" => TurnProduced
    /\ TurnLogged.outcome # "processed" => TurnLeftOutputs
    /\ posts' # posts => ChecksPass(call.tree, bir_elements[bir_idx + 1])

\* C27: the loop processes the BIRs one at a time in collection order, calls
\* the renderer, writes a file and adds an entry only after all checks of
\* the BIR passed, a skipped BIR changes neither the mapping nor the count
\* nor the files, and processed_count is at every point the number of files
\* written so far.
C27_LoopFrameAndCount ==
  [][ LoopFrame /\ processed_count' = Cardinality(files') ]_vars

(***************************************************************************)
(* The whole-buffer fallback of parse_cbeff (specification Spec).          *)
(***************************************************************************)
\* the first 100 bytes of the decoded buffer
Head100 == Slice(cbeff_bytes, 0, WindowLen)

\* the structured scan and the signature scan both found no BDB
NothingLocated ==
  /\ Finished
  /\ "structured" \in tried
  /\ ~LayoutFits
  /\ FullWindowOffsets(cbeff_bytes) = {}

\* C24: when the structured scan and the signature scan found no BDB, the
\* whole decoded buffer is returned with FINGER if FMR is in its first 100
\* bytes, else IRIS if IRI is there, else FACE if FAC is there; otherwise,
\* a signature beyond the first 100 bytes included, the call fails with
\* ModalityUndetected.
C24_WholeBuffer ==
  /\ NothingLocated <=> (Finished /\ "fallback" \in tried)
  /\ NothingLocated =>
       result =
         IF Contains(Head100, KwFMR)
           THEN Ok(cbeff_bytes, "FINGER", "ISO19794_4_2011")
         ELSE IF Contains(Head100, KwIRI)
           THEN Ok(cbeff_bytes, "IRIS", "ISO19794_6_2011")
         ELSE IF Contains(Head100, KwFAC)
           THEN Ok(cbeff_bytes, "FACE", "ISO19794_5_2011")
         ELSE Fail("ModalityUndetected")

\* IRI at offset 104 of a buffer of 107 bytes: no BDB located, no fallback
C24_Witness ==
  /\ NothingLocated
  /\ cbeff_bytes = Fill(WindowLen + 4) \o KwIRI
  /\ "fallback" \in tried
  /\ result = Fail("ModalityUndetected")

====
